---- MODULE Spec2Model ----
(***************************************************************************)
(* A model of the mutation / validation / audit core of the DND engine:    *)
(*   - Action.can_perform / Action.execute          (src/game_types.py)    *)
(*   - GameEngine.validate_game_balance and the per-category validators,   *)
(*     the commit of admitted fields and ChangeTracker (src/engine.py,     *)
(*     src/game_types.py)                                                  *)
(*   - GameEngine.revert_last_change                (src/engine.py)        *)
(*   - GameEngine.talk_to_npc and AIConversationHandler                    *)
(*     (src/engine.py, src/ai_conversation.py)                             *)
(* Python dicts are insertion ordered; a dict is modelled as a sequence of *)
(* <<key, value>> pairs with distinct keys, or as a function where only    *)
(* lookups are made.  Texts are TLA+ strings; substring tests are made on  *)
(* the characters, as Python's `in` makes them.                            *)
(***************************************************************************)
EXTENDS Integers, Sequences, FiniteSets, TLC

VARIABLES
    player,       \* the actor: Entity.stats, gold, inventory, skills, quests
    game_state,   \* GameState fields Action.execute reads and writes
    last,         \* the last Action call: its input, its snapshot, its outcome
    world,        \* GameEngine's entity tables: category -> id -> field -> value
    changes,      \* game_state.change_tracker.changes
    clock,        \* the last reading of datetime.now() and the uuids drawn
    call,         \* the last validator / commit / revert / talk call and its outcome
    conversation_states,  \* game_state.conversation_states: npc id -> ConversationState
    saved,        \* game_state.json as save_to_file wrote it last
    client,       \* whether the handlers hold an OpenAI client (OPENAI_API_KEY was set)
    invalid_inputs \* the text of invalid_inputs.txt, NoFile while there is none

vars == <<player, game_state, last, world, changes, clock, call, conversation_states, saved, client, invalid_inputs>>

actionVars == <<player, game_state, last>>
balanceVars == <<world, changes, clock, call>>
talkVars == <<conversation_states, saved, client, invalid_inputs>>

(***************************************************************************)
(* Bounds of the model.                                                    *)
(***************************************************************************)
\* health, mana and gold of a snapshot range over 0..MaxStat
MaxStat == 2
\* cost and effect amounts range over 1..MaxAmount
MaxAmount == 2
\* a proposal names at most MaxFields fields
MaxFields == 2
\* at most MaxChanges records are appended to the change log in a behaviour
MaxChanges == 2
\* datetime.now() reads 0..MaxClock
MaxClock == 1

None == "None"

(***************************************************************************)
(* Dict helpers.                                                           *)
(***************************************************************************)
\* dict.get(key, default) on a dict modelled as a function
Get(d, k, default) == IF k \in DOMAIN d THEN d[k] ELSE default

\* d[k] = v on a dict modelled as a function
Put(d, k, v) == [x \in (DOMAIN d) \cup {k} |-> IF x = k THEN v ELSE d[x]]

\* x in list
InList(x, s) == \E i \in DOMAIN s : s[i] = x

\* Python truthiness of an id read with .get(): None and "" are falsy
Truthy(x) == x # None /\ x # ""

(***************************************************************************)
(* Action.can_perform (src/game_types.py 276-309).                         *)
(* An action is [id, requirements, cost, effects]: requirements a function *)
(* on a subset of {"level","items","skills","location"}, cost a sequence   *)
(* of <<resource, amount>>, effects a sequence of <<effect_type, data>>.   *)
(* A result is [ok, kind, id, need, have]: the f-string of the message is  *)
(* kept as its template (kind) and its interpolated values.                *)
(***************************************************************************)
Msg(ok, kind, id, need, have) ==
    [ok |-> ok, kind |-> kind, id |-> id, need |-> need, have |-> have]

Allowed == Msg(TRUE, "Action can be performed", "", 0, 0)

\* the holdings a cost entry is compared with; stamina and unknown
\* resources are not compared at all
Holding(p, resource) ==
    CASE resource = "mana" -> p.mana
      [] resource = "health" -> p.health
      [] resource = "gold" -> p.gold
      [] OTHER -> 0

CheckedResource(resource) == resource \in {"mana", "health", "gold"}

\* the index of the first cost entry the actor cannot pay, 0 if none
FirstUnpaid(p, cost) ==
    LET bad == {i \in DOMAIN cost :
                  /\ CheckedResource(cost[i][1])
                  /\ Holding(p, cost[i][1]) < cost[i][2]}
    IN IF bad = {} THEN 0 ELSE CHOOSE i \in bad : \A j \in bad : i <= j

\* the index of the first element of `wanted` that is not in `held`, 0 if none
FirstMissing(wanted, held) ==
    LET bad == {i \in DOMAIN wanted : ~InList(wanted[i], held)}
    IN IF bad = {} THEN 0 ELSE CHOOSE i \in bad : \A j \in bad : i <= j

\* can_perform that looks for the required items before the costs
can_ItemsFirst(a, p, gs) ==
    LET req == a.requirements
        unpaid == FirstUnpaid(p, a.cost)
        items == Get(req, "items", <<>>)
        skills == Get(req, "skills", <<>>)
        noitem == FirstMissing(items, p.inventory)
        noskill == FirstMissing(skills, p.skills)
    IN IF "level" \in DOMAIN req /\ p.level < req["level"]
         THEN Msg(FALSE, "Requires level", "", req["level"], 0)
       ELSE IF noitem # 0
         THEN Msg(FALSE, "Missing required item", items[noitem], 0, 0)
       ELSE IF unpaid # 0
         THEN Msg(FALSE, "Not enough", a.cost[unpaid][1],
                  a.cost[unpaid][2], Holding(p, a.cost[unpaid][1]))
       ELSE IF noskill # 0
         THEN Msg(FALSE, "Missing required skill", skills[noskill], 0, 0)
       ELSE IF "location" \in DOMAIN req /\ gs.player_location # req["location"]
         THEN Msg(FALSE, "Must be at", req["location"], 0, 0)
       ELSE Allowed

can_perform(a, p, gs) ==
    LET req == a.requirements
        unpaid == FirstUnpaid(p, a.cost)
        items == Get(req, "items", <<>>)
        skills == Get(req, "skills", <<>>)
        noitem == FirstMissing(items, p.inventory)
        noskill == FirstMissing(skills, p.skills)
    IN IF "level" \in DOMAIN req /\ p.level < req["level"]
         THEN Msg(FALSE, "Requires level", "", req["level"], 0)
       ELSE IF unpaid # 0
         THEN Msg(FALSE, "Not enough", a.cost[unpaid][1],
                  a.cost[unpaid][2], Holding(p, a.cost[unpaid][1]))
       ELSE IF noitem # 0
         THEN Msg(FALSE, "Missing required item", items[noitem], 0, 0)
       ELSE IF noskill # 0
         THEN Msg(FALSE, "Missing required skill", skills[noskill], 0, 0)
       ELSE IF "location" \in DOMAIN req /\ gs.player_location # req["location"]
         THEN Msg(FALSE, "Must be at", req["location"], 0, 0)
       ELSE Allowed

(***************************************************************************)
(* Action.execute (src/game_types.py 311-461).                             *)
(***************************************************************************)
Min(a, b) == IF a <= b THEN a ELSE b
Max(a, b) == IF a >= b THEN a ELSE b

\* one entry of the cost loop (318-329).  int(max_health * (amount / 100))
\* is exact for the percentages drawn here (50 and 100).
ApplyCost(p, entry) ==
    LET resource == entry[1]
        amount == entry[2]
    IN CASE resource = "mana" -> [p EXCEPT !.mana = @ - amount]
         [] resource = "health" -> [p EXCEPT !.health = @ - amount]
         [] resource = "gold" -> [p EXCEPT !.gold = @ - amount]
         [] resource = "stamina" ->
              [p EXCEPT !.health = Max(1, @ - ((p.max_health * amount) \div 100))]
         [] OTHER -> p

RECURSIVE ApplyCosts(_, _, _)
ApplyCosts(p, cost, i) ==
    IF i > Len(cost) THEN p ELSE ApplyCosts(ApplyCost(p, cost[i]), cost, i + 1)

\* temporary_effects[key].append(x), the list created when the key is absent
AppendTo(te, key, x) == Put(te, key, Append(Get(te, key, <<>>), x))

\* an effect loop whose restoring effects add like the granting ones, with
\* no upper limit
ApplyEffect_Unclamped(a, st, entry) ==
    LET amount == Get(entry[2], "amount", 0)
    IN CASE entry[1] = "heal" -> [st EXCEPT !.player.health = @ + amount]
         [] entry[1] = "restore_mana" -> [st EXCEPT !.player.mana = @ + amount]
         [] entry[1] = "add_gold" -> [st EXCEPT !.player.gold = @ + amount]
         [] entry[1] = "add_experience" -> [st EXCEPT !.player.experience = @ + amount]
         [] OTHER -> st

\* one entry of the effect loop (331-459) on st = [player, game_state, raised]
ApplyEffect(a, st, entry) ==
    LET effect_type == entry[1]
        effect_data == entry[2]
        p == st.player
        gs == st.game_state
        te == gs.temporary_effects
        SetTE(key, v) == [st EXCEPT !.game_state.temporary_effects = Put(te, key, v)]
        AppendTE(key, v) == [st EXCEPT !.game_state.temporary_effects = AppendTo(te, key, v)]
    IN CASE effect_type = "heal" ->
              [st EXCEPT !.player.health =
                  Min(p.max_health, p.health + Get(effect_data, "amount", 0))]
         [] effect_type = "restore_mana" ->
              [st EXCEPT !.player.mana =
                  Min(p.max_mana, p.mana + Get(effect_data, "amount", 0))]
         [] effect_type = "add_gold" ->
              [st EXCEPT !.player.gold = @ + Get(effect_data, "amount", 0)]
         [] effect_type = "add_experience" ->
              [st EXCEPT !.player.experience = @ + Get(effect_data, "amount", 0)]
         [] effect_type = "add_item" ->
              LET item_id == Get(effect_data, "item_id", None)
              IN IF Truthy(item_id) /\ ~InList(item_id, p.inventory)
                   THEN [st EXCEPT !.player.inventory = Append(@, item_id)]
                   ELSE st
         [] effect_type = "learn_skill" ->
              LET skill_id == Get(effect_data, "skill_id", None)
              IN IF Truthy(skill_id) /\ ~InList(skill_id, p.skills)
                   THEN [st EXCEPT !.player.skills = Append(@, skill_id)]
                   ELSE st
         [] effect_type \in {"move_to", "teleport_to"} ->
              LET new_location == Get(effect_data, "location_id", None)
              IN IF Truthy(new_location)
                   THEN [st EXCEPT !.game_state.player_location = new_location]
                   ELSE st
         [] effect_type = "unlock_location" ->
              LET location_id == Get(effect_data, "location_id", None)
              IN IF Truthy(location_id) /\ ~InList(location_id, gs.discovered_locations)
                   THEN [st EXCEPT !.game_state.discovered_locations = Append(@, location_id)]
                   ELSE st
         [] effect_type = "improve_relationship" ->
              LET npc_id == Get(effect_data, "npc_id", None)
                  amount == Get(effect_data, "amount", 1)
              IN IF Truthy(npc_id)
                   THEN [st EXCEPT !.game_state.npc_relationships =
                            Put(@, npc_id, Get(@, npc_id, 0) + amount)]
                   ELSE st
         [] effect_type = "gain_reputation" ->
              SetTE("reputation", Get(te, "reputation", 0) + Get(effect_data, "amount", 1))
         [] effect_type = "unlock_dialogue" ->
              LET dialogue_id == Get(effect_data, "dialogue_id", None)
              IN IF Truthy(dialogue_id) THEN AppendTE("unlocked_dialogues", dialogue_id) ELSE st
         [] effect_type = "change_weather" ->
              SetTE("weather", Get(effect_data, "weather", "clear"))
         [] effect_type = "create_light" ->
              SetTE("light_source", Get(effect_data, "duration", 10))
         [] effect_type = "open_secret_passage" ->
              LET passage_id == Get(effect_data, "passage_id", None)
              IN IF Truthy(passage_id) THEN AppendTE("open_passages", passage_id) ELSE st
         [] effect_type = "invisibility" ->
              SetTE("invisible", Get(effect_data, "duration", 5))
         [] effect_type = "flight" ->
              SetTE("flying", Get(effect_data, "duration", 3))
         [] effect_type = "enhanced_senses" ->
              SetTE("enhanced_senses", Get(effect_data, "duration", 10))
         [] effect_type = "protection" ->
              SetTE("protection_" \o Get(effect_data, "type", "general"),
                    Get(effect_data, "duration", 5))
         [] effect_type = "unlock_ability" ->
              \* 409-412: the list is created under temporary_effects, then the
              \* append goes to game_state.temporary_abilities, an attribute
              \* GameState (546-565) does not have: AttributeError
              LET ability_id == Get(effect_data, "ability_id", None)
              IN IF Truthy(ability_id)
                   THEN [st EXCEPT
                           !.game_state.temporary_effects =
                               IF "unlocked_abilities" \in DOMAIN te
                                 THEN te ELSE Put(te, "unlocked_abilities", <<>>),
                           !.raised = TRUE]
                   ELSE st
         [] effect_type = "gain_title" ->
              SetTE("title", Get(effect_data, "title", "Adventurer"))
         [] effect_type = "establish_connection" ->
              SetTE("connection_" \o Get(effect_data, "type", "general"),
                    Get(effect_data, "target", "unknown"))
         [] effect_type = "trigger_event" ->
              LET event_id == Get(effect_data, "event_id", None)
              IN IF Truthy(event_id)
                   THEN [st EXCEPT !.game_state.world_events =
                            Append(@, [id |-> event_id, triggered_by |-> a.id,
                                       timestamp |-> gs.timestamp])]
                   ELSE st
         [] effect_type = "reveal_secret" ->
              LET secret_id == Get(effect_data, "secret_id", None)
              IN IF Truthy(secret_id) THEN AppendTE("revealed_secrets", secret_id) ELSE st
         [] effect_type = "advance_quest" ->
              LET quest_id == Get(effect_data, "quest_id", None)
              IN IF Truthy(quest_id) /\ InList(quest_id, p.quests_in_progress)
                   THEN AppendTE("advanced_quests", quest_id) ELSE st
         [] effect_type = "create_art" ->
              SetTE("created_art_" \o Get(effect_data, "type", "painting"),
                    Get(effect_data, "value", 10))
         [] effect_type = "compose_song" ->
              SetTE("composed_song_" \o Get(effect_data, "type", "ballad"), TRUE)
         [] effect_type = "write_story" ->
              SetTE("written_story_" \o Get(effect_data, "type", "tale"), TRUE)
         \* damage_enemy, buff_ally, debuff_enemy: pass; any other tag matches
         \* no branch of the if/elif chain
         [] OTHER -> st

\* the tags the effect loop has a branch for (331-459)
Vocabulary ==
    {"heal", "restore_mana", "add_gold", "add_experience", "add_item", "learn_skill",
     "move_to", "teleport_to", "unlock_location", "improve_relationship",
     "gain_reputation", "unlock_dialogue", "change_weather", "create_light",
     "open_secret_passage", "invisibility", "flight", "enhanced_senses", "protection",
     "unlock_ability", "gain_title", "establish_connection", "trigger_event",
     "reveal_secret", "advance_quest", "create_art", "compose_song", "write_story",
     "damage_enemy", "buff_ally", "debuff_enemy"}

\* an effect loop that ends at the first tag it has no branch for
RECURSIVE ApplyEffects_StopsAtUnknown(_, _, _)
ApplyEffects_StopsAtUnknown(a, st, i) ==
    IF i > Len(a.effects) \/ st.raised \/ a.effects[i][1] \notin Vocabulary
      THEN st
      ELSE ApplyEffects_StopsAtUnknown(a, ApplyEffect(a, st, a.effects[i]), i + 1)

\* the effect loop: an exception leaves the loop with the state as it is
RECURSIVE ApplyEffects(_, _, _)
ApplyEffects(a, st, i) ==
    IF i > Len(a.effects) \/ st.raised
      THEN st
      ELSE ApplyEffects(a, ApplyEffect(a, st, a.effects[i]), i + 1)

Success == Msg(TRUE, "Successfully performed", "", 0, 0)
Raised == Msg(FALSE, "AttributeError", "", 0, 0)

\* a variant of execute that debits the costs before it looks at can_perform's answer
execute_DebitsFirst(a, p, gs) ==
    LET can == can_perform(a, p, gs)
        paid == ApplyCosts(p, a.cost, 1)
        st == ApplyEffects(a, [player |-> paid, game_state |-> gs, raised |-> FALSE], 1)
    IN IF ~can.ok
         THEN [player |-> paid, game_state |-> gs, raised |-> FALSE, result |-> can]
         ELSE [player |-> st.player, game_state |-> st.game_state,
               raised |-> st.raised,
               result |-> IF st.raised THEN Raised ELSE Success]

\* execute(player, game_state): [player, game_state, raised, result]; with
\* raised the call returns nothing and result is the exception
execute(a, p, gs) ==
    LET can == can_perform(a, p, gs)
        st == ApplyEffects(a, [player |-> ApplyCosts(p, a.cost, 1),
                               game_state |-> gs, raised |-> FALSE], 1)
    IN IF ~can.ok
         THEN [player |-> p, game_state |-> gs, raised |-> FALSE, result |-> can]
         ELSE [player |-> st.player, game_state |-> st.game_state,
               raised |-> st.raised,
               result |-> IF st.raised THEN Raised ELSE Success]

(***************************************************************************)
(* The actions and snapshots the executor is run on.                       *)
(***************************************************************************)
Amounts == 1..MaxAmount

\* entries of Action.cost; a stamina amount is a percentage of max_health
CostEntries ==
    {<<r, n>> : r \in {"mana", "health", "gold"}, n \in Amounts}
      \cup {<<"stamina", 50>>, <<"stamina", 100>>}

NoDict == <<>>

\* Action.requirements: every combination of an unmet level floor, a held and
\* a missing item, a missing skill and another location, and one that is met
Requirement(level, items, skills, location) ==
    (IF level # 0 THEN "level" :> level ELSE NoDict)
      @@ (IF items # <<>> THEN "items" :> items ELSE NoDict)
      @@ (IF skills # <<>> THEN "skills" :> skills ELSE NoDict)
      @@ (IF location # "" THEN "location" :> location ELSE NoDict)

Requirements ==
    {Requirement(l, i, s, loc) :
        l \in {0, 2}, i \in {<<>>, <<"sword", "key">>},
        s \in {<<>>, <<"lockpick">>}, loc \in {"", "forest"}}
      \cup {Requirement(1, <<"sword">>, <<"heal">>, "tavern")}

\* entries of Action.effects: every tag of the vocabulary, a tag outside it,
\* and the id-less forms of the grants
EffectEntries ==
    {<<t, [amount |-> n]>> :
        t \in {"heal", "restore_mana", "add_gold", "add_experience"}, n \in Amounts}
      \cup {<<"add_item", [item_id |-> i]>> : i \in {"key", "sword", None}}
      \cup {<<"learn_skill", [skill_id |-> "lockpick"]>>,
            <<"move_to", [location_id |-> "forest"]>>,
            <<"teleport_to", [location_id |-> "forest"]>>,
            <<"unlock_location", [location_id |-> "forest"]>>,
            <<"improve_relationship", [npc_id |-> "bartender"]>>,
            <<"gain_reputation", NoDict>>,
            <<"unlock_dialogue", [dialogue_id |-> "d1"]>>,
            <<"change_weather", [weather |-> "rain"]>>,
            <<"create_light", NoDict>>,
            <<"open_secret_passage", [passage_id |-> "p1"]>>,
            <<"invisibility", NoDict>>,
            <<"flight", NoDict>>,
            <<"enhanced_senses", NoDict>>,
            <<"protection", [type |-> "fire"]>>,
            <<"unlock_ability", [ability_id |-> "dash"]>>,
            <<"unlock_ability", [ability_id |-> None]>>,
            <<"gain_title", NoDict>>,
            <<"establish_connection", [type |-> "guild"]>>,
            <<"trigger_event", [event_id |-> "e1"]>>,
            <<"reveal_secret", [secret_id |-> "s1"]>>,
            <<"advance_quest", [quest_id |-> "q1"]>>,
            <<"create_art", NoDict>>,
            <<"compose_song", NoDict>>,
            <<"write_story", NoDict>>,
            <<"damage_enemy", NoDict>>,
            <<"buff_ally", NoDict>>,
            <<"debuff_enemy", NoDict>>,
            <<"summon_dragon", NoDict>>}

\* the effects combined two by two
PairedEffects ==
    {<<"heal", [amount |-> 1]>>, <<"add_gold", [amount |-> 1]>>,
     <<"add_item", [item_id |-> "key"]>>,
     <<"unlock_ability", [ability_id |-> "dash"]>>,
     <<"summon_dragon", NoDict>>}

\* the two-entry dicts over `entries`: the keys of a dict are distinct
DistinctPairs(entries) == {d \in entries \X entries : d[1][1] # d[2][1]}

MkAction(r, c, e) == [id |-> "act", requirements |-> r, cost |-> c, effects |-> e]

Actions ==
    \* requirements against at most one cost
    {MkAction(r, c, <<>>) : r \in Requirements,
                            c \in {<<>>} \cup {<<x>> : x \in CostEntries}}
    \* two costs on distinct resources, in both orders
      \cup {MkAction(NoDict, c, <<>>) : c \in DistinctPairs(CostEntries)}
    \* effect maps of one and of two entries, free or paid
      \cup {MkAction(NoDict, c, e) :
              c \in {<<>>, <<<<"mana", 1>>>>},
              e \in {<<x>> : x \in EffectEntries} \cup DistinctPairs(PairedEffects)}

(***************************************************************************)
(* Text: str.lower() and the substring test `word in text`.                *)
(***************************************************************************)
UpperCase == "ABCDEFGHIJKLMNOPQRSTUVWXYZ"
LowerCase == "abcdefghijklmnopqrstuvwxyz"

\* the lower-case letter of each upper-case one
LowerOf ==
    [c \in {SubSeq(UpperCase, i, i) : i \in 1..Len(UpperCase)} |->
        LET i == CHOOSE j \in 1..Len(UpperCase) : SubSeq(UpperCase, j, j) = c
        IN SubSeq(LowerCase, i, i)]

LowerChar(c) == IF c \in DOMAIN LowerOf THEN LowerOf[c] ELSE c

RECURSIVE Lower(_)
Lower(text) ==
    IF Len(text) = 0 THEN ""
    ELSE LowerChar(SubSeq(text, 1, 1)) \o Lower(SubSeq(text, 2, Len(text)))

\* word in text
Contains(text, word) ==
    \E i \in 1..(Len(text) - Len(word) + 1) : SubSeq(text, i, i + Len(word) - 1) = word

\* the number of the words of `words` that occur in text
Hits(text, words) == Cardinality({i \in DOMAIN words : Contains(text, words[i])})

(***************************************************************************)
(* GameEngine._calculate_ingenuity_score (src/engine.py 1587-1621), in     *)
(* tenths: 0.2 per creative scenario, 0.3 per consequence word, 0.1 for a  *)
(* text of more than 50 characters, 0.2 for a causal connective, at most   *)
(* 1.0.  The float sums the code makes compare with 0.6 and 0.5 as the     *)
(* tenths do (0.2+0.2+0.2 and 0.3+0.1+0.2 round up, 0.3+0.3 is exact).     *)
(***************************************************************************)
creative_scenarios ==
    <<"using", "using the", "with the", "to cut", "to carve", "to dig", "to pry",
      "breaking", "damaging", "wearing out", "dulling", "chipped", "cracked",
      "repurposing", "modifying", "altering", "customizing", "personalizing">>

consequence_words ==
    <<"break", "damage", "wear", "dull", "chip", "crack", "rust", "bend",
      "lose", "drop", "misplace", "forget", "leave behind">>

context_words == <<"because", "since", "after", "while", "during">>

_calculate_ingenuity_score(user_input) ==
    LET input_lower == Lower(user_input)
        score == 2 * Hits(input_lower, creative_scenarios)
                   + 3 * Hits(input_lower, consequence_words)
                   + (IF Len(user_input) > 50 THEN 1 ELSE 0)
                   + (IF Hits(input_lower, context_words) > 0 THEN 2 ELSE 0)
    IN Min(score, 10)

(***************************************************************************)
(* GameEngine._is_ingenious_modification (src/engine.py 1623-1650).        *)
(***************************************************************************)
ingenious_patterns ==
    <<<<"using", "to cut", "food">>, <<"using", "to carve", "wood">>,
      <<"using", "to dig", "hole">>, <<"using", "to pry", "open">>,
      <<"breaking", "while", "using">>, <<"damaging", "during", "battle">>,
      <<"wearing out", "from", "use">>, <<"losing", "while", "traveling">>,
      <<"dropping", "in", "water">>, <<"rusting", "from", "moisture">>>>

MatchesPattern(input_lower, patterns) ==
    \E i \in DOMAIN patterns :
        \A j \in DOMAIN patterns[i] : Contains(input_lower, patterns[i][j])

_is_ingenious_modification(user_input, ingenuity_score) ==
    \/ MatchesPattern(Lower(user_input), ingenious_patterns)
    \/ ingenuity_score >= 6

(***************************************************************************)
(* GameEngine._generate_consequence (src/engine.py 1652-1703): the first   *)
(* keyword family found in the text; the description text is left out.     *)
(***************************************************************************)
Consequence(type, effect, severity) ==
    [type |-> type, effect |-> effect, severity |-> severity]

\* a synthesis that looks for the words of a loss before those of a damage
_generate_LossFirst(user_input) ==
    LET input_lower == Lower(user_input)
        AnyOf(words) == Hits(input_lower, words) > 0
    IN IF AnyOf(<<"lose", "drop", "misplace">>)
         THEN Consequence("loss", "item_lost", "major")
       ELSE IF AnyOf(<<"break", "damage", "crack", "chip">>)
         THEN Consequence("damage", "item_damaged", "minor")
       ELSE IF AnyOf(<<"dull", "wearing out", "blunt">>)
         THEN Consequence("deterioration", "item_dulled", "minor")
       ELSE IF AnyOf(<<"rust", "corrode", "water">>)
         THEN Consequence("corrosion", "item_rusted", "minor")
       ELSE IF AnyOf(<<"bend", "warp", "deform">>)
         THEN Consequence("deformation", "item_bent", "moderate")
       ELSE Consequence("wear", "item_worn", "minor")

_generate_consequence(user_input) ==
    LET input_lower == Lower(user_input)
        AnyOf(words) == Hits(input_lower, words) > 0
    IN IF AnyOf(<<"break", "damage", "crack", "chip">>)
         THEN Consequence("damage", "item_damaged", "minor")
       ELSE IF AnyOf(<<"dull", "wearing out", "blunt">>)
         THEN Consequence("deterioration", "item_dulled", "minor")
       ELSE IF AnyOf(<<"rust", "corrode", "water">>)
         THEN Consequence("corrosion", "item_rusted", "minor")
       ELSE IF AnyOf(<<"lose", "drop", "misplace">>)
         THEN Consequence("loss", "item_lost", "major")
       ELSE IF AnyOf(<<"bend", "warp", "deform">>)
         THEN Consequence("deformation", "item_bent", "moderate")
       ELSE Consequence("wear", "item_worn", "minor")

(***************************************************************************)
(* GameEngine._is_ingenious_skill_modification (1746-1765) and             *)
(* GameEngine._generate_skill_consequence (1767-1800).                     *)
(***************************************************************************)
ingenious_skill_patterns ==
    <<<<"overusing", "skill">>, <<"practicing", "too much">>,
      <<"learning", "new technique">>, <<"adapting", "skill">>,
      <<"forgetting", "how to">>, <<"improving", "technique">>,
      <<"developing", "bad habit">>>>

_is_ingenious_skill_modification(user_input) ==
    MatchesPattern(Lower(user_input), ingenious_skill_patterns)

_generate_skill_consequence(user_input) ==
    LET input_lower == Lower(user_input)
        AnyOf(words) == Hits(input_lower, words) > 0
    IN IF AnyOf(<<"overusing", "too much", "exhaustion">>)
         THEN Consequence("exhaustion", "skill_exhausted", "minor")
       ELSE IF AnyOf(<<"forgetting", "losing", "rusty">>)
         THEN Consequence("rust", "skill_rusty", "minor")
       ELSE IF AnyOf(<<"bad habit", "wrong way", "incorrect">>)
         THEN Consequence("bad_habit", "skill_bad_habit", "minor")
       ELSE Consequence("development", "skill_evolved", "minor")

(***************************************************************************)
(* Ordered dicts (a proposal, an admitted map): sequences of <<key, value>>*)
(***************************************************************************)
Keys(d) == {d[i][1] : i \in DOMAIN d}

HasKey(d, k) == k \in Keys(d)

Lookup(d, k) == d[CHOOSE i \in DOMAIN d : d[i][1] = k][2]

\* d[k] = v: in place when the key is there, appended when it is not
DictSet(d, k, v) ==
    IF HasKey(d, k)
      THEN [i \in DOMAIN d |-> IF d[i][1] = k THEN <<k, v>> ELSE d[i]]
      ELSE Append(d, <<k, v>>)

(***************************************************************************)
(* The validators of src/engine.py 1519-1875.  w is the engine's entity    *)
(* tables, p the player; the result is (ok, reason, admitted map), the     *)
(* reason kept as its template and the field it names.                     *)
(***************************************************************************)
Verdict(ok, reason, field, admitted) ==
    [ok |-> ok, reason |-> reason, field |-> field, admitted |-> admitted]

NotFound == Verdict(FALSE, "not found", "", <<>>)
NotOwned == Verdict(FALSE, "not owned", "", <<>>)
Protected(field) == Verdict(FALSE, "Cannot modify", field, <<>>)
NoValid == Verdict(FALSE, "No valid modifications found", "", <<>>)
Magical == Verdict(FALSE, "Cannot add magical properties", "description", <<>>)

\* the end of every validator: an empty admitted map is a failure
Closing(filtered, reason) ==
    IF filtered = <<>> THEN NoValid ELSE Verdict(TRUE, reason, "", filtered)

Valid == "Valid modifications"
ValidCosmetic == "Valid cosmetic modifications"

power_vocabulary == <<"magic", "enchanted", "powerful", "legendary", "epic">>

\* variants of the item loop: one that lists cost among the cosmetic fields,
\* one that skips a power field instead of ending the call, and one that
\* admits a description only on an ingenious justification
RECURSIVE ItemLoop_AdmitsCost(_, _, _, _)
ItemLoop_AdmitsCost(modifications, user_input, i, filtered) ==
    IF i > Len(modifications) THEN Closing(filtered, Valid)
    ELSE LET field == modifications[i][1]
             value == modifications[i][2]
         IN IF field \in {"description", "name", "cost"}
              THEN ItemLoop_AdmitsCost(modifications, user_input, i + 1,
                                       DictSet(filtered, field, value))
            ELSE IF field \in {"rarity"}
              THEN Protected(field)
            ELSE ItemLoop_AdmitsCost(modifications, user_input, i + 1, filtered)

RECURSIVE ItemLoop_SkipsPower(_, _, _, _)
ItemLoop_SkipsPower(modifications, user_input, i, filtered) ==
    IF i > Len(modifications) THEN Closing(filtered, Valid)
    ELSE LET field == modifications[i][1]
             value == modifications[i][2]
         IN IF field \in {"description", "name"}
              THEN ItemLoop_SkipsPower(modifications, user_input, i + 1,
                                       DictSet(filtered, field, value))
            ELSE ItemLoop_SkipsPower(modifications, user_input, i + 1, filtered)

RECURSIVE ItemLoop_NarrativeOnly(_, _, _, _)
ItemLoop_NarrativeOnly(modifications, user_input, i, filtered) ==
    IF i > Len(modifications) THEN Closing(filtered, Valid)
    ELSE LET field == modifications[i][1]
             value == modifications[i][2]
             score == _calculate_ingenuity_score(user_input)
         IN IF field = "name"
              THEN ItemLoop_NarrativeOnly(modifications, user_input, i + 1,
                                          DictSet(filtered, field, value))
            ELSE IF field \in {"cost", "rarity"}
              THEN Protected(field)
            ELSE IF field = "description" /\ _is_ingenious_modification(user_input, score)
              THEN ItemLoop_NarrativeOnly(modifications, user_input, i + 1,
                                          DictSet(DictSet(filtered, field, value),
                                                  "_consequence",
                                                  _generate_consequence(user_input)))
            ELSE ItemLoop_NarrativeOnly(modifications, user_input, i + 1, filtered)

\* the loop of _validate_item_balance (1555-1580) from entry i on.  A field
\* of allowed_cosmetic_fields is admitted and the loop continues, so the
\* branch for field == "description" below it (1565-1580) is never taken.
RECURSIVE ItemLoop(_, _, _, _)
ItemLoop(modifications, user_input, i, filtered) ==
    IF i > Len(modifications) THEN Closing(filtered, Valid)
    ELSE LET field == modifications[i][1]
             value == modifications[i][2]
             score == _calculate_ingenuity_score(user_input)
         IN IF field \in {"description", "name"}
              THEN ItemLoop(modifications, user_input, i + 1, DictSet(filtered, field, value))
            ELSE IF field \in {"cost", "rarity"}
              THEN Protected(field)
            ELSE IF field = "description"
              THEN IF _is_ingenious_modification(user_input, score)
                     THEN ItemLoop(modifications, user_input, i + 1,
                                   DictSet(DictSet(filtered, field, value), "_consequence",
                                           _generate_consequence(user_input)))
                   ELSE IF Hits(Lower(value), power_vocabulary) > 0
                     THEN Magical
                   ELSE ItemLoop(modifications, user_input, i + 1,
                                 DictSet(filtered, field, value))
            ELSE ItemLoop(modifications, user_input, i + 1, filtered)

_validate_item_balance(w, p, target_id, modifications, user_input) ==
    IF target_id \notin DOMAIN w.item THEN NotFound
    ELSE IF ~InList(target_id, p.inventory) THEN NotOwned
    ELSE ItemLoop(modifications, user_input, 1, <<>>)

\* the loop shared by the skill, quest, location and npc validators: a field
\* of `allowed` is admitted, a field of `blocked` ends the call, any other
\* field is skipped.  The result is a verdict (a blocked field was met) or
\* the admitted map.
RECURSIVE FieldLoop(_, _, _, _, _)
FieldLoop(modifications, allowed, blocked, i, filtered) ==
    IF i > Len(modifications) THEN [blocked |-> FALSE, filtered |-> filtered]
    ELSE LET field == modifications[i][1]
             value == modifications[i][2]
         IN IF field \in allowed
              THEN FieldLoop(modifications, allowed, blocked, i + 1,
                             DictSet(filtered, field, value))
            ELSE IF field \in blocked
              THEN [blocked |-> TRUE, field |-> field]
            ELSE FieldLoop(modifications, allowed, blocked, i + 1, filtered)

_validate_skill_balance(w, p, target_id, modifications, user_input) ==
    IF target_id \notin DOMAIN w.skill THEN NotFound
    ELSE IF ~InList(target_id, p.skills) THEN NotOwned
    ELSE LET loop == FieldLoop(modifications, {"description", "name"},
                        {"cost", "skill_type", "target", "range", "area_of_effect"},
                        1, <<>>)
         IN IF loop.blocked THEN Protected(loop.field)
            ELSE IF /\ HasKey(modifications, "description")
                    /\ _calculate_ingenuity_score(user_input) >= 5
                    /\ _is_ingenious_skill_modification(user_input)
              THEN Closing(DictSet(DictSet(loop.filtered, "description",
                                           Lookup(modifications, "description")),
                                   "_consequence", _generate_skill_consequence(user_input)),
                           Valid)
            ELSE Closing(loop.filtered, Valid)

_validate_quest_balance(w, p, target_id, modifications, user_input) ==
    IF target_id \notin DOMAIN w.quest THEN NotFound
    ELSE IF ~InList(target_id, p.quests_in_progress) THEN NotOwned
    ELSE LET loop == FieldLoop(modifications, {"description", "name"},
                               {"reward", "objectives", "level"}, 1, <<>>)
         IN IF loop.blocked THEN Protected(loop.field) ELSE Closing(loop.filtered, ValidCosmetic)

_validate_location_balance(w, target_id, modifications, user_input) ==
    IF target_id \notin DOMAIN w.location THEN NotFound
    ELSE LET loop == FieldLoop(modifications, {"description", "name", "scene"},
                               {"npcs", "sub_locations", "shop_items", "entities_within"},
                               1, <<>>)
         IN IF loop.blocked THEN Protected(loop.field) ELSE Closing(loop.filtered, ValidCosmetic)

_validate_npc_balance(w, target_id, modifications, user_input) ==
    IF target_id \notin DOMAIN w.npc THEN NotFound
    ELSE LET loop == FieldLoop(modifications, {"description", "personality", "bio", "name"},
                               {"location_id", "level", "quests_offered", "shop_items"},
                               1, <<>>)
         IN IF loop.blocked THEN Protected(loop.field) ELSE Closing(loop.filtered, ValidCosmetic)

\* the else branch of validate_game_balance (1534-1535): the proposal is
\* returned as it came, the target is not looked up
Unvalidated(modifications) ==
    Verdict(TRUE, "No balance validation for this data type", "", modifications)

validate_game_balance(w, p, data_type, target_id, modifications, user_input) ==
    CASE data_type = "item" -> _validate_item_balance(w, p, target_id, modifications, user_input)
      [] data_type = "skill" -> _validate_skill_balance(w, p, target_id, modifications, user_input)
      [] data_type = "quest" -> _validate_quest_balance(w, p, target_id, modifications, user_input)
      [] data_type = "location" -> _validate_location_balance(w, target_id, modifications, user_input)
      [] data_type = "npc" -> _validate_npc_balance(w, target_id, modifications, user_input)
      [] OTHER -> Unvalidated(modifications)

(***************************************************************************)
(* The world the validators and the change tracker run on: the entity      *)
(* tables GameEngine.__init__ copies from the data loader (src/engine.py   *)
(* 48-56), an entity a function from its dataclass fields to their values, *)
(* and the player's holdings.  The player owns the sword, knows heal and   *)
(* has q1 active; shield, fireball and q2 exist and are not the player's.  *)
(***************************************************************************)
ItemEntity(name) ==
    [id |-> name, name |-> name, description |-> "plain", cost |-> 50,
     rarity |-> "common", weight |-> 5, skill |-> None]

SkillEntity(name) ==
    [id |-> name, name |-> name, description |-> "plain", skill_type |-> "active",
     target |-> "self", range |-> 1, area_of_effect |-> 1, cost |-> 5]

QuestEntity(name) ==
    [id |-> name, name |-> name, description |-> "plain", level |-> 1,
     objectives |-> <<>>, reward |-> NoDict, status |-> "in_progress",
     location_id |-> None]

LocationEntity(name) ==
    [id |-> name, name |-> name, description |-> "plain", entities_within |-> <<>>,
     sub_locations |-> <<>>, quests |-> <<>>, scene |-> None, lat |-> None,
     long |-> None, symbol |-> None, shop_items |-> <<>>, npcs |-> <<>>]

NPCEntity(name) ==
    [id |-> name, name |-> name, description |-> "plain", personality |-> "gruff",
     location_id |-> "tavern", level |-> 1, conversation_id |-> None,
     quests_offered |-> <<>>, shop_items |-> <<>>, dialogue_tree |-> NoDict,
     bio |-> "", conversation_nodes |-> <<>>, temperament |-> "neutral",
     max_daily_questions |-> 10]

BlueprintEntity(name) ==
    [id |-> name, name |-> name, resulting_item |-> "sword", required_items |-> <<>>,
     required_skills |-> <<>>, location_needed |-> None]

InitWorld ==
    [item |-> [sword |-> ItemEntity("sword"), shield |-> ItemEntity("shield")],
     skill |-> [heal |-> SkillEntity("heal"), fireball |-> SkillEntity("fireball")],
     quest |-> [q1 |-> QuestEntity("q1"), q2 |-> QuestEntity("q2")],
     location |-> [tavern |-> LocationEntity("tavern")],
     npc |-> [bartender |-> NPCEntity("bartender")],
     blueprint |-> [bp1 |-> BlueprintEntity("bp1")]]

InitPlayer ==
    [health |-> MaxStat, max_health |-> MaxStat, mana |-> MaxStat,
     max_mana |-> MaxStat, gold |-> MaxStat, level |-> 1, experience |-> 0,
     inventory |-> <<"sword">>, skills |-> <<"heal">>,
     quests_in_progress |-> <<"q1">>]

\* a record of the change log (src/game_types.py 464-474)
DataChange(timestamp, data_type, target_id, field_name, old_value, new_value, user_input, reasoning, change_id) ==
    [timestamp |-> timestamp, data_type |-> data_type, target_id |-> target_id,
     field_name |-> field_name, old_value |-> old_value, new_value |-> new_value,
     user_input |-> user_input, reasoning |-> reasoning, change_id |-> change_id]

(***************************************************************************)
(* The conversation records (src/game_types.py 161-192).  Each record      *)
(* reads datetime.now() when it is made.  A similarity is kept in tenths:  *)
(* 10 is 1.0.                                                              *)
(***************************************************************************)
ConversationNode(topic, content, is_essential, created_dynamically, created_at) ==
    [topic |-> topic, content |-> content, is_essential |-> is_essential,
     repetition_count |-> 0, player_relationship_impact |-> 0,
     created_dynamically |-> created_dynamically,
     related_data_modifications |-> <<>>, created_at |-> created_at]

DynamicExchange(player_input, npc_response, similarity_score, is_essential, created_at) ==
    [player_input |-> player_input, npc_response |-> npc_response,
     similarity_score |-> similarity_score, is_essential |-> is_essential,
     created_at |-> created_at]

\* a ConversationState that starts at relationship level 1
ConversationState_Befriended(npc_id, max_questions_remaining, last_interaction) ==
    [npc_id |-> npc_id, conversation_history |-> <<>>,
     essential_topics_created |-> <<>>, relationship_level |-> 1,
     max_questions_remaining |-> max_questions_remaining,
     last_interaction |-> last_interaction]

ConversationState(npc_id, max_questions_remaining, last_interaction) ==
    [npc_id |-> npc_id, conversation_history |-> <<>>,
     essential_topics_created |-> <<>>, relationship_level |-> 0,
     max_questions_remaining |-> max_questions_remaining,
     last_interaction |-> last_interaction]

(***************************************************************************)
(* GameState (src/game_types.py 545-733) and game_state.json.  The game    *)
(* state in memory is three parts: the record of its plain fields with the *)
(* registered AI actions, the conversation states, and the change log.     *)
(* json.dump writes the dicts, lists, texts, numbers, booleans and None of *)
(* to_dict as they are and json.loads reads them back so; what decides     *)
(* whether a state comes back is which keys to_dict writes and which keys  *)
(* load_from_file reads.                                                   *)
(***************************************************************************)
\* game_state.json: no file, a text that is no JSON document, or a JSON
\* document of some type
NoFile == [kind |-> "missing"]
TextFile(text) == [kind |-> "text", text |-> text]
JsonFile(type, value) == [kind |-> "json", type |-> type, value |-> value]

GameState(gs, cs, log) ==
    [game_state |-> gs, conversation_states |-> cs, change_tracker |-> log]

\* Action.to_dict (253-269)
Action_to_dict(a) ==
    [id |-> a.id, name |-> a.name, description |-> a.description,
     action_type |-> a.action_type, parameters |-> a.parameters,
     targets |-> a.targets, requirements |-> a.requirements,
     effects |-> a.effects, cost |-> a.cost, duration |-> a.duration,
     cooldown |-> a.cooldown, success_chance |-> a.success_chance,
     ai_generated |-> a.ai_generated]

\* Action(**data) that leaves the mark of an AI-made action at its default
Action_Unmarked(data) ==
    [id |-> data.id, name |-> data.name, description |-> data.description,
     action_type |-> data.action_type,
     parameters |-> Get(data, "parameters", NoDict),
     targets |-> Get(data, "targets", <<>>),
     requirements |-> Get(data, "requirements", NoDict),
     effects |-> Get(data, "effects", NoDict),
     cost |-> Get(data, "cost", NoDict),
     duration |-> Get(data, "duration", None),
     cooldown |-> Get(data, "cooldown", None),
     success_chance |-> Get(data, "success_chance", 10),
     ai_generated |-> FALSE]

\* Action(**data) (236-250): the four fields without a default must be
\* given, and no key that is no field
Action_init(data) ==
    [id |-> data.id, name |-> data.name, description |-> data.description,
     action_type |-> data.action_type,
     parameters |-> Get(data, "parameters", NoDict),
     targets |-> Get(data, "targets", <<>>),
     requirements |-> Get(data, "requirements", NoDict),
     effects |-> Get(data, "effects", NoDict),
     cost |-> Get(data, "cost", NoDict),
     duration |-> Get(data, "duration", None),
     cooldown |-> Get(data, "cooldown", None),
     success_chance |-> Get(data, "success_chance", 10),
     ai_generated |-> Get(data, "ai_generated", FALSE)]

\* GameState.to_dict (567-595), with DataChange.to_dict (476-488) and
\* ChangeTracker.to_dict (532-536)
to_dict(gs, cs, log) ==
    [session_id |-> gs.session_id,
     timestamp |-> gs.timestamp,
     player_location |-> gs.player_location,
     player_health |-> gs.player_health,
     player_mana |-> gs.player_mana,
     player_gold |-> gs.player_gold,
     player_level |-> gs.player_level,
     player_experience |-> gs.player_experience,
     active_quests |-> gs.active_quests,
     completed_quests |-> gs.completed_quests,
     discovered_locations |-> gs.discovered_locations,
     npc_relationships |-> gs.npc_relationships,
     conversation_history |-> gs.conversation_history,
     conversation_states |->
        [k \in DOMAIN cs |->
            [npc_id |-> cs[k].npc_id,
             conversation_history |->
                [i \in DOMAIN cs[k].conversation_history |->
                    [player_input |-> cs[k].conversation_history[i].player_input,
                     npc_response |-> cs[k].conversation_history[i].npc_response,
                     similarity_score |-> cs[k].conversation_history[i].similarity_score,
                     is_essential |-> cs[k].conversation_history[i].is_essential,
                     created_at |-> cs[k].conversation_history[i].created_at]],
             essential_topics_created |-> cs[k].essential_topics_created,
             relationship_level |-> cs[k].relationship_level,
             max_questions_remaining |-> cs[k].max_questions_remaining,
             last_interaction |-> cs[k].last_interaction]],
     world_events |-> gs.world_events,
     temporary_effects |-> gs.temporary_effects,
     ai_generated_actions |->
        [k \in DOMAIN gs.ai_generated_actions |->
            Action_to_dict(gs.ai_generated_actions[k])],
     change_tracker |->
        [changes |->
            [i \in DOMAIN log |->
                [timestamp |-> log[i].timestamp, data_type |-> log[i].data_type,
                 target_id |-> log[i].target_id, field_name |-> log[i].field_name,
                 old_value |-> log[i].old_value, new_value |-> log[i].new_value,
                 user_input |-> log[i].user_input, reasoning |-> log[i].reasoning,
                 change_id |-> log[i].change_id]]]]

\* create_new_game_state (711-733); uuid is what uuid4 gives
create_new_game_state(now, uuid) ==
    GameState([session_id |-> uuid, timestamp |-> now, player_location |-> "tavern",
               player_health |-> 100, player_mana |-> 50, player_gold |-> 100,
               player_level |-> 1, player_experience |-> 0,
               active_quests |-> <<>>, completed_quests |-> <<>>,
               discovered_locations |-> <<"tavern">>, npc_relationships |-> NoDict,
               conversation_history |-> NoDict, world_events |-> <<>>,
               temporary_effects |-> NoDict, ai_generated_actions |-> NoDict],
              NoDict, <<>>)

\* the keys a constructor call of load_from_file reads with [] or must be
\* given, and the keys it may be given
ExchangeKeys ==
    {"player_input", "npc_response", "similarity_score", "is_essential", "created_at"}
ActionRequired == {"id", "name", "description", "action_type"}
ActionFields ==
    ActionRequired \cup {"parameters", "targets", "requirements", "effects", "cost",
                         "duration", "cooldown", "success_chance", "ai_generated"}
DataChangeRequired ==
    {"timestamp", "data_type", "target_id", "field_name", "old_value", "new_value",
     "user_input", "reasoning"}

\* load_from_file that keeps the fields it has read when a constructor
\* fails further on
load_KeepsDecoded(file, now, uuid) ==
    IF file.kind = "json" /\ file.type = "dict"
      THEN [create_new_game_state(now, uuid) EXCEPT
               !.game_state.player_gold = Get(file.value, "player_gold", 100)]
      ELSE create_new_game_state(now, uuid)

\* load_from_file (620-689), with ChangeTracker.from_dict (538-542) and
\* DataChange.from_dict (490-493).  Every exception ends in
\* create_new_game_state: FileNotFoundError, JSONDecodeError, AttributeError
\* of .get on a document that is no dict, KeyError of a missing key and
\* TypeError of a constructor.
load_from_file(file, now, uuid) ==
    LET data == file.value
        states == Get(data, "conversation_states", NoDict)
        history(k) == Get(states[k], "conversation_history", <<>>)
        actions == Get(data, "ai_generated_actions", NoDict)
        records == Get(Get(data, "change_tracker", NoDict), "changes", <<>>)
        KeyError ==
            \E k \in DOMAIN states :
                \/ "npc_id" \notin DOMAIN states[k]
                \/ \E i \in DOMAIN history(k) : ~(ExchangeKeys \subseteq DOMAIN history(k)[i])
        TypeError ==
            \/ \E k \in DOMAIN actions :
                  ~(ActionRequired \subseteq DOMAIN actions[k]
                      /\ DOMAIN actions[k] \subseteq ActionFields)
            \/ \E i \in DOMAIN records :
                  ~(DataChangeRequired \subseteq DOMAIN records[i]
                      /\ DOMAIN records[i] \subseteq DataChangeRequired \cup {"change_id"})
    IN IF file.kind = "missing" THEN create_new_game_state(now, uuid)
       ELSE IF file.kind = "text"
         \* nothing but blanks, or a text json.loads does not take
         THEN create_new_game_state(now, uuid)
       ELSE IF file.type # "dict" \/ TypeError \/ KeyError
         THEN create_new_game_state(now, uuid)
       ELSE GameState(
              [session_id |-> Get(data, "session_id", uuid),
               timestamp |-> Get(data, "timestamp", now),
               player_location |-> Get(data, "player_location", "tavern"),
               player_health |-> Get(data, "player_health", 100),
               player_mana |-> Get(data, "player_mana", 50),
               player_gold |-> Get(data, "player_gold", 100),
               player_level |-> Get(data, "player_level", 1),
               player_experience |-> Get(data, "player_experience", 0),
               active_quests |-> Get(data, "active_quests", <<>>),
               completed_quests |-> Get(data, "completed_quests", <<>>),
               discovered_locations |-> Get(data, "discovered_locations", <<"tavern">>),
               npc_relationships |-> Get(data, "npc_relationships", NoDict),
               conversation_history |-> Get(data, "conversation_history", NoDict),
               world_events |-> Get(data, "world_events", <<>>),
               temporary_effects |-> Get(data, "temporary_effects", NoDict),
               ai_generated_actions |->
                  [k \in DOMAIN actions |-> Action_init(actions[k])]],
              [k \in DOMAIN states |->
                  [ConversationState(states[k].npc_id,
                                     Get(states[k], "max_questions_remaining", 10),
                                     Get(states[k], "last_interaction", now))
                   EXCEPT
                     !.conversation_history =
                        [i \in DOMAIN history(k) |->
                            DynamicExchange(history(k)[i].player_input,
                                            history(k)[i].npc_response,
                                            history(k)[i].similarity_score,
                                            history(k)[i].is_essential,
                                            history(k)[i].created_at)],
                     !.essential_topics_created =
                        Get(states[k], "essential_topics_created", <<>>),
                     !.relationship_level = Get(states[k], "relationship_level", 0)]],
              [i \in DOMAIN records |->
                  DataChange(records[i].timestamp, records[i].data_type,
                             records[i].target_id, records[i].field_name,
                             records[i].old_value, records[i].new_value,
                             records[i].user_input, records[i].reasoning,
                             Get(records[i], "change_id", <<uuid, i>>))])

\* save_to_file (615-618): the file holds the document of to_dict
Snapshot(gs, cs, log) == JsonFile("dict", to_dict(gs, cs, log))

\* add_ai_action (691-694) and remove_ai_action (696-700) on the plain
\* fields; each is followed by save_to_file
add_ai_action(gs, action) ==
    [gs EXCEPT !.ai_generated_actions = Put(@, action.id, action)]

remove_ai_action(gs, action_id) ==
    [gs EXCEPT !.ai_generated_actions = [k \in (DOMAIN @) \ {action_id} |-> @[k]]]

\* _update_game_state (src/engine.py 87-103) before it saves: the player's
\* numbers and quests and the engine's current_location are copied
_update_game_state(gs, p, current_location) ==
    [gs EXCEPT
        !.player_location = current_location,
        !.player_health = p.health,
        !.player_mana = p.mana,
        !.player_gold = p.gold,
        !.player_level = p.level,
        !.player_experience = p.experience,
        !.active_quests = p.quests_in_progress,
        !.discovered_locations =
            IF InList(current_location, @) THEN @ ELSE Append(@, current_location)]

\* the game state a first session has once __init__ is through: no file was
\* there, and _initialize_player (107-158) ends in _update_game_state
InitGameState ==
    _update_game_state(create_new_game_state(0, 0).game_state, InitPlayer, "tavern")

(***************************************************************************)
(* The inputs of validate_game_balance.                                    *)
(***************************************************************************)
\* the categories the engine has a table for, and one it has none for
DataTypes == {"item", "skill", "quest", "location", "npc", "blueprint", "dialogue"}

\* per category: a target the player owns (or that exists), one that exists
\* and is not the player's, and an id no table has
TargetIds(data_type) ==
    CASE data_type = "item" -> {"sword", "shield", "ghost"}
      [] data_type = "skill" -> {"heal", "fireball", "ghost"}
      [] data_type = "quest" -> {"q1", "q2", "ghost"}
      [] data_type = "location" -> {"tavern", "ghost"}
      [] data_type = "npc" -> {"bartender", "ghost"}
      [] data_type = "blueprint" -> {"bp1", "ghost"}
      [] OTHER -> {"ghost"}

\* the fields the validator of a category never admits
PowerFields(data_type) ==
    CASE data_type = "item" -> {"cost", "rarity"}
      [] data_type = "skill" -> {"cost", "skill_type", "target", "range", "area_of_effect"}
      [] data_type = "quest" -> {"reward", "objectives", "level"}
      [] data_type = "location" -> {"npcs", "sub_locations", "shop_items", "entities_within"}
      [] data_type = "npc" -> {"location_id", "level", "quests_offered", "shop_items"}
      [] OTHER -> {}

\* the fields the validator of a category admits as they come
CosmeticFields(data_type) ==
    CASE data_type \in {"item", "skill", "quest"} -> {"description", "name"}
      [] data_type = "location" -> {"description", "name", "scene"}
      [] data_type = "npc" -> {"description", "personality", "bio", "name"}
      [] OTHER -> {}

\* a field of the entity that is in neither list
OtherFields(data_type) ==
    CASE data_type = "item" -> {"weight"}
      [] data_type = "skill" -> {"id"}
      [] data_type = "quest" -> {"status"}
      [] data_type = "location" -> {"quests"}
      [] data_type = "npc" -> {"temperament"}
      [] data_type = "blueprint" -> {"name", "resulting_item"}
      [] OTHER -> {"text"}

Descriptions == {"a chipped blade", "An Enchanted blade"}

\* the <<field, value>> entries a proposal is made of
ProposalEntries(data_type) ==
    {<<"description", v>> : v \in Descriptions}
      \cup {<<f, "new">> : f \in (CosmeticFields(data_type) \cup OtherFields(data_type))
                                    \ {"description"}}
      \cup {<<f, 500>> : f \in PowerFields(data_type)}

RECURSIVE DictsOver(_, _)
\* the ordered dicts of at most n entries of `entries`, the keys distinct
DictsOver(entries, n) ==
    IF n = 0 THEN {<<>>}
    ELSE LET shorter == DictsOver(entries, n - 1)
         IN shorter \cup {Append(d, e) : d \in {x \in shorter : Len(x) = n - 1},
                                         e \in entries}

Proposals(data_type) ==
    {d \in DictsOver(ProposalEntries(data_type), MaxFields) :
        \A i, j \in DOMAIN d : i # j => d[i][1] # d[j][1]}

ScenarioA == "I used my sword to cut my food and it chipped"

\* justification texts: ingenious by score, plain, ingenious by pattern only,
\* a skill pattern with a score of 0.5, a skill pattern below it, empty
Justifications ==
    {ScenarioA,
     "Change the description of my iron sword to be more detailed",
     "I was using my sword to cut food",
     "overusing this skill will break me",
     "I've been overusing my healing skill and it's becoming exhausting",
     ""}

NoValidatorCall == [op |-> "none"]

\* the tables, the empty change log and no call made yet
InitBalance ==
    /\ world = InitWorld
    /\ changes = <<>>
    /\ clock = [now |-> 0, ids |-> 0]
    /\ call = NoValidatorCall
    /\ conversation_states = NoDict
    /\ saved = Snapshot(InitGameState, NoDict, <<>>)
    /\ client = TRUE
    /\ invalid_inputs = NoFile

NoCall == [op |-> "none"]

InitAction ==
    /\ InitBalance
    /\ player \in {[health |-> h, max_health |-> MaxStat,
                    mana |-> m, max_mana |-> MaxStat, gold |-> g,
                    level |-> 1, experience |-> 0,
                    inventory |-> <<"sword">>, skills |-> <<"heal">>,
                    quests_in_progress |-> <<"q1">>] :
                      h \in 0..MaxStat, m \in 0..MaxStat, g \in 0..MaxStat}
    /\ game_state = InitGameState
    /\ last = NoCall

\* action.can_perform(player, game_state): the snapshot is only read
CanPerform(a) ==
    /\ last.op = "none"
    /\ last' = [op |-> "can_perform", action |-> a,
                player |-> player, game_state |-> game_state,
                can |-> can_perform(a, player, game_state),
                result |-> can_perform(a, player, game_state),
                raised |-> FALSE]
    /\ UNCHANGED <<player, game_state>>
    /\ UNCHANGED balanceVars
    /\ UNCHANGED talkVars

\* action.execute(player, game_state); `last` keeps the snapshot it ran on
Execute(a) ==
    \* alone, or after the can_perform call the engine makes on the same action
    /\ last.op = "none" \/ (last.op = "can_perform" /\ last.action = a)
    /\ LET out == execute(a, player, game_state)
       IN /\ player' = out.player
          /\ game_state' = out.game_state
          /\ last' = [op |-> "execute", action |-> a,
                      player |-> player, game_state |-> game_state,
                      can |-> can_perform(a, player, game_state),
                      result |-> out.result, raised |-> out.raised]
    /\ UNCHANGED balanceVars
    /\ UNCHANGED talkVars

InitValidate ==
    /\ InitBalance
    /\ player = InitPlayer
    /\ game_state = InitGameState
    /\ last = NoCall

\* one call of validate_game_balance; nothing but the call record changes
Validate(data_type, target_id, modifications, user_input) ==
    /\ call.op = "none"
    /\ call' = [op |-> "validate", data_type |-> data_type, target_id |-> target_id,
                modifications |-> modifications, user_input |-> user_input,
                verdict |-> validate_game_balance(world, player, data_type, target_id,
                                                  modifications, user_input)]
    /\ UNCHANGED <<world, changes, clock>>
    /\ UNCHANGED actionVars
    /\ UNCHANGED talkVars

NextValidate ==
    \E data_type \in DataTypes :
        \E target_id \in TargetIds(data_type), modifications \in Proposals(data_type),
           user_input \in Justifications :
            Validate(data_type, target_id, modifications, user_input)

SpecValidate == InitValidate /\ [][NextValidate]_vars

(***************************************************************************)
(* The executor on every snapshot and action drawn above.                  *)
(***************************************************************************)
NextAction == \E a \in Actions : CanPerform(a) \/ Execute(a)

SpecAction == InitAction /\ [][NextAction]_vars

(***************************************************************************)
(* Properties of Action.can_perform and Action.execute, under SpecAction.  *)
(***************************************************************************)
\* C1: when can_perform denies an action on a snapshot, execute on that
\* snapshot leaves the actor and the game state as they were, raises nothing
\* and returns the failure with the very reason can_perform gave.
C1_DeniedExecuteChangesNothing ==
    (last.op = "execute" /\ ~last.can.ok) =>
        /\ player = last.player
        /\ game_state = last.game_state
        /\ ~last.raised
        /\ last.result = last.can

\* execute has run on an action can_perform denies for want of mana, with
\* an effect it would have applied
C1_Witness ==
    /\ last.op = "execute"
    /\ ~last.can.ok
    /\ last.action.effects # <<>>
    /\ last.action.cost # <<>>
    /\ last.action.cost[1][1] = "mana"
    /\ last.player.mana < last.action.cost[1][2]

\* C2: when can_perform allows an action on a snapshot, execute on that
\* snapshot raises nothing and returns Success, for every effect tag.
C2_AllowedExecuteSucceeds ==
    (last.op = "execute" /\ last.can.ok) =>
        /\ ~last.raised
        /\ last.result = Success

(***************************************************************************)
(* Properties of validate_game_balance, under SpecValidate.                *)
(***************************************************************************)
\* the ownership / availability precondition of a category: the target is
\* in the table and, for an item, a skill or a quest, it is the player's
Owned(w, p, data_type, target_id) ==
    CASE data_type = "item" -> target_id \in DOMAIN w.item /\ InList(target_id, p.inventory)
      [] data_type = "skill" -> target_id \in DOMAIN w.skill /\ InList(target_id, p.skills)
      [] data_type = "quest" ->
           target_id \in DOMAIN w.quest /\ InList(target_id, p.quests_in_progress)
      [] data_type \in {"location", "npc", "blueprint"} -> target_id \in DOMAIN w[data_type]
      [] OTHER -> FALSE

Validated == call.op = "validate"

TargetOwned == Owned(world, player, call.data_type, call.target_id)

ProposedPower == Keys(call.modifications) \cap PowerFields(call.data_type)

HasPowerVocabulary(value) == Hits(Lower(value), power_vocabulary) > 0

Ingenious(user_input) ==
    _is_ingenious_modification(user_input, _calculate_ingenuity_score(user_input))

\* C3: no field of a category's power set is ever a key of the admitted map,
\* whatever the justification and the other proposed fields.
C3_PowerFieldNeverAdmitted ==
    Validated => Keys(call.verdict.admitted) \cap PowerFields(call.data_type) = {}

\* an owned item, a proposal with a description and a power field
C3_Witness ==
    /\ Validated
    /\ call.data_type = "item"
    /\ TargetOwned
    /\ ProposedPower # {}
    /\ HasKey(call.modifications, "description")

\* C4: a proposal for an owned target that names a power-protected field is
\* rejected with an empty admitted map and a reason naming a power-protected
\* field of the proposal, whatever else is proposed and in whatever order.
C4_PowerFieldRejectsProposal ==
    (Validated /\ TargetOwned /\ ProposedPower # {}) =>
        /\ ~call.verdict.ok
        /\ call.verdict.admitted = <<>>
        /\ call.verdict.reason = "Cannot modify"
        /\ call.verdict.field \in ProposedPower

\* an owned item, a cosmetic field iterated before the power field
C4_Witness ==
    /\ Validated
    /\ call.data_type = "item"
    /\ TargetOwned
    /\ Len(call.modifications) = 2
    /\ call.modifications[1][1] \in CosmeticFields("item")
    /\ call.modifications[2][1] = "cost"
    /\ ~call.verdict.ok

\* C5: for each of item, skill, quest, location, npc and blueprint, a target
\* that is unknown or not the player's makes the call fail with an empty
\* admitted map, whatever is proposed.
C5_UnknownTargetFails ==
    (/\ Validated
     /\ call.data_type \in {"item", "skill", "quest", "location", "npc", "blueprint"}
     /\ ~TargetOwned) =>
        /\ ~call.verdict.ok
        /\ call.verdict.admitted = <<>>

\* C6: a new description of an owned item that contains power-claim
\* vocabulary is never admitted, whatever the justification.
C6_PowerVocabularyRejected ==
    (/\ Validated
     /\ call.data_type = "item"
     /\ TargetOwned
     /\ HasKey(call.modifications, "description")
     /\ HasPowerVocabulary(Lookup(call.modifications, "description"))) =>
        ~HasKey(call.verdict.admitted, "description")

\* C7: a description of an owned item admitted on an ingenious justification
\* comes with a consequence under "_consequence"; with the justification of
\* Scenario A the call succeeds, admits the description and attaches a
\* consequence of type damage and severity minor.
C7_AdmittedDescriptionCarriesConsequence ==
    (/\ Validated
     /\ call.data_type = "item"
     /\ TargetOwned
     /\ ProposedPower = {}
     /\ HasKey(call.modifications, "description")) =>
        /\ (HasKey(call.verdict.admitted, "description") /\ Ingenious(call.user_input)) =>
               HasKey(call.verdict.admitted, "_consequence")
        /\ call.user_input = ScenarioA =>
               /\ call.verdict.ok
               /\ HasKey(call.verdict.admitted, "description")
               /\ HasKey(call.verdict.admitted, "_consequence")
               /\ Lookup(call.verdict.admitted, "_consequence").type = "damage"
               /\ Lookup(call.verdict.admitted, "_consequence").severity = "minor"

\* C8, as claimed: the description of an owned item or known skill is in the
\* admitted map only if the justification matches an ingenious-use pattern
\* or scores at least 0.6.
C8_DescriptionNeedsIngenuity ==
    (/\ Validated
     /\ call.data_type \in {"item", "skill"}
     /\ HasKey(call.verdict.admitted, "description")) =>
        Ingenious(call.user_input)

\* C8, amended: for an owned item or known skill, a proposal that names no
\* power-protected field and a description free of power-claim vocabulary
\* is accepted with the description admitted as proposed, for every
\* justification.
C8_DescriptionAdmittedForAnyJustification ==
    (/\ Validated
     /\ call.data_type \in {"item", "skill"}
     /\ TargetOwned
     /\ ProposedPower = {}
     /\ HasKey(call.modifications, "description")
     /\ ~HasPowerVocabulary(Lookup(call.modifications, "description"))) =>
        /\ call.verdict.ok
        /\ HasKey(call.verdict.admitted, "description")
        /\ Lookup(call.verdict.admitted, "description")
             = Lookup(call.modifications, "description")

\* an owned item, a description admitted on a justification that matches no
\* pattern and scores below 0.6
C8_Witness ==
    /\ Validated
    /\ call.data_type = "item"
    /\ TargetOwned
    /\ ~Ingenious(call.user_input)
    /\ call.user_input # ""
    /\ HasKey(call.verdict.admitted, "description")

\* C9: the call returns ok only with a non-empty admitted map.
C9_OkOnlyWithAdmittedFields ==
    Validated => (call.verdict.ok => call.verdict.admitted # <<>>)

(***************************************************************************)
(* ChangeTracker (src/game_types.py 497-525).  datetime.now() is read once *)
(* per record: a reading is the last one or later, so two records may carry*)
(* the same timestamp.  uuid4 is a fresh number.                           *)
(***************************************************************************)
\* add_change that puts the new record at the head of the log
add_AtFront(tr, tick, data_type, target_id, field_name, old_value, new_value, user_input, reasoning) ==
    [changes |-> <<DataChange(tr.clock.now + tick, data_type, target_id, field_name,
                              old_value, new_value, user_input, reasoning,
                              tr.clock.ids + 1)>> \o tr.changes,
     clock |-> [now |-> tr.clock.now + tick, ids |-> tr.clock.ids + 1]]

\* add_change on tr = [changes, clock], the clock advanced by tick
add_change(tr, tick, data_type, target_id, field_name, old_value, new_value, user_input, reasoning) ==
    [changes |-> Append(tr.changes,
                        DataChange(tr.clock.now + tick, data_type, target_id, field_name,
                                   old_value, new_value, user_input, reasoning,
                                   tr.clock.ids + 1)),
     clock |-> [now |-> tr.clock.now + tick, ids |-> tr.clock.ids + 1]]

\* a filter argument that is None or "" filters nothing
Matches(c, data_type, target_id) ==
    /\ (Truthy(data_type) => c.data_type = data_type)
    /\ (Truthy(target_id) => c.target_id = target_id)

\* get_changes_for that ignores the category filter
get_changes_TargetOnly(log, data_type, target_id) ==
    {i \in DOMAIN log : Truthy(target_id) => log[i].target_id = target_id}

\* get_changes_for, as the indices of the matching records in log order
get_changes_for(log, data_type, target_id) ==
    {i \in DOMAIN log : Matches(log[i], data_type, target_id)}

\* get_changes_for as the list it returns (518-525): the log filtered by the
\* category when one is given, and what is left by the target
get_changes_for_list(log, data_type, target_id) ==
    LET OfType(c) == c.data_type = data_type
        OfTarget(c) == c.target_id = target_id
        filtered == IF Truthy(data_type) THEN SelectSeq(log, OfType) ELSE log
    IN IF Truthy(target_id) THEN SelectSeq(filtered, OfTarget) ELSE filtered

\* list.remove(x): the first element equal to x goes
RemoveAt(log, i) == [j \in 1..(Len(log) - 1) |-> IF j < i THEN log[j] ELSE log[j + 1]]

Remove(log, x) ==
    RemoveAt(log, CHOOSE i \in DOMAIN log : log[i] = x /\ \A j \in 1..(i - 1) : log[j] # x)

(***************************************************************************)
(* GameEngine._apply_data_modifications (src/engine.py 1209-1335), called  *)
(* by modify_existing_data (1159-1207) with the oracle's proposal.         *)
(***************************************************************************)
\* the categories the commit and the reversion have a branch for
Tables == {"location", "quest", "item", "npc", "skill", "blueprint"}

\* the loop over the admitted map on st = [world, game_state, changes,
\* clock, changes_made]; ticks[i] is the clock's advance at entry i
RECURSIVE ApplyFields(_, _, _, _, _, _, _, _)
ApplyFields(st, data_type, target_id, filtered, user_input, reasoning, ticks, i) ==
    IF i > Len(filtered) THEN st
    ELSE LET field == filtered[i][1]
             value == filtered[i][2]
             entity == st.world[data_type][target_id]
             key == IF data_type = "item" THEN "item_consequences" ELSE "skill_consequences"
             te == st.game_state.temporary_effects
             tr == add_change([changes |-> st.changes, clock |-> st.clock], ticks[i],
                              data_type, target_id, field, entity[field], value,
                              user_input, reasoning)
             next ==
                IF data_type \in {"item", "skill"} /\ field = "_consequence"
                  THEN [st EXCEPT !.game_state.temporary_effects =
                           Put(te, key, Put(Get(te, key, NoDict), target_id, value))]
                ELSE IF field \in DOMAIN entity
                  THEN [st EXCEPT !.world[data_type][target_id][field] = value,
                                  !.changes = tr.changes,
                                  !.clock = tr.clock,
                                  !.changes_made = TRUE]
                ELSE st
         IN ApplyFields(next, data_type, target_id, filtered, user_input, reasoning,
                        ticks, i + 1)

\* [ok, world, game_state, changes, clock]
_apply_data_modifications(w, p, gs, log, clk, data_type, target_id, modifications, reasoning, user_input, ticks) ==
    LET verdict == validate_game_balance(w, p, data_type, target_id, modifications,
                                         user_input)
        before == [world |-> w, game_state |-> gs, changes |-> log, clock |-> clk,
                   changes_made |-> FALSE]
        after == IF data_type \in Tables /\ target_id \in DOMAIN w[data_type]
                   THEN ApplyFields(before, data_type, target_id, verdict.admitted,
                                    user_input, reasoning, ticks, 1)
                   ELSE before
    IN IF ~verdict.ok \/ verdict.admitted = <<>>
         THEN [before EXCEPT !.changes_made = FALSE]
         ELSE after

(***************************************************************************)
(* GameEngine.revert_last_change (src/engine.py 1912-1957).                *)
(***************************************************************************)
\* max(changes, key=lambda x: x.timestamp): the first of the records with
\* the greatest timestamp
Latest(log, matching) ==
    CHOOSE i \in matching :
        /\ \A j \in matching : log[j].timestamp <= log[i].timestamp
        /\ \A j \in matching : j < i => log[j].timestamp < log[i].timestamp

\* a variant of revert_last_change that takes the record off the log before
\* it looks for the live entity
revert_RemovesFirst(w, log, data_type, target_id) ==
    LET matching == get_changes_for(log, data_type, target_id)
        i == Latest(log, matching)
        c == log[i]
    IN IF matching = {}
         THEN [ok |-> FALSE, world |-> w, changes |-> log, index |-> 0]
       ELSE IF c.data_type \in Tables /\ c.target_id \in DOMAIN w[c.data_type]
         THEN [ok |-> TRUE,
               world |-> [w EXCEPT ![c.data_type][c.target_id] =
                             Put(@, c.field_name, c.old_value)],
               changes |-> Remove(log, c),
               index |-> i]
       ELSE [ok |-> FALSE, world |-> w, changes |-> Remove(log, c), index |-> i]

\* a variant of revert_last_change that puts the name of the entity back to
\* its id along with the field of the record
revert_ResetsName(w, log, data_type, target_id) ==
    LET matching == get_changes_for(log, data_type, target_id)
        i == Latest(log, matching)
        c == log[i]
    IN IF matching = {}
         THEN [ok |-> FALSE, world |-> w, changes |-> log, index |-> 0]
       ELSE IF c.data_type \in Tables /\ c.target_id \in DOMAIN w[c.data_type]
         THEN [ok |-> TRUE,
               world |-> [w EXCEPT ![c.data_type][c.target_id] =
                             Put(Put(@, "name", c.target_id), c.field_name, c.old_value)],
               changes |-> Remove(log, c),
               index |-> i]
       ELSE [ok |-> FALSE, world |-> w, changes |-> log, index |-> i]

\* [ok, world, changes, index]: index is the place of the reverted record
revert_last_change(w, log, data_type, target_id) ==
    LET matching == get_changes_for(log, data_type, target_id)
        i == Latest(log, matching)
        c == log[i]
    IN IF matching = {}
         THEN [ok |-> FALSE, world |-> w, changes |-> log, index |-> 0]
       ELSE IF c.data_type \in Tables /\ c.target_id \in DOMAIN w[c.data_type]
         THEN [ok |-> TRUE,
               world |-> [w EXCEPT ![c.data_type][c.target_id] =
                             Put(@, c.field_name, c.old_value)],
               changes |-> Remove(log, c),
               index |-> i]
       ELSE [ok |-> FALSE, world |-> w, changes |-> log, index |-> i]

(***************************************************************************)
(* The change log in use: commits of oracle proposals and reversions.      *)
(***************************************************************************)
\* the oracle's answers to a request, as <<data_type, target_id,
\* modifications, user_input>>: a description of the player's sword (twice,
\* so that a field can be changed again), its name and description in one
\* proposal, a description of a skill the player knows under a justification
\* that earns a consequence, a protected field, and an item not the player's
CommitRequests ==
    {<<"item", "sword", << <<"description", v>> >>, ScenarioA>> : v \in Descriptions}
      \cup {<<"item", "sword",
              << <<"name", "new">>, <<"description", "a chipped blade">> >>, ScenarioA>>,
            <<"skill", "heal", << <<"description", "a chipped blade">> >>,
              "overusing this skill will break me">>,
            <<"item", "sword", << <<"cost", 500>> >>, ScenarioA>>,
            <<"item", "shield", << <<"description", "a chipped blade">> >>, ScenarioA>>}

\* the (data_type, target_id) arguments of a reversion: none, a category, a
\* category and a target, and a pair no record matches
RevertFilters ==
    {<<None, None>>, <<"item", None>>, <<"item", "sword">>, <<"skill", "heal">>,
     <<"item", "shield">>}

InitTracker ==
    /\ world = InitWorld
    /\ changes = <<>>
    /\ clock = [now |-> 0, ids |-> 0]
    /\ call = NoValidatorCall
    /\ player = InitPlayer
    /\ game_state = InitGameState
    /\ last = NoCall
    /\ conversation_states = NoDict
    /\ saved = Snapshot(InitGameState, NoDict, <<>>)
    /\ client = TRUE
    /\ invalid_inputs = NoFile

\* modify_existing_data from the oracle's answer on: _apply_data_modifications
\* and, when it succeeds, _update_game_state
\* (the engine's current_location is the location the game state holds: no
\* operation here moves the player)
Commit(data_type, target_id, modifications, user_input, ticks) ==
    LET out == _apply_data_modifications(world, player, game_state, changes, clock,
                                         data_type, target_id, modifications,
                                         "because", user_input, ticks)
    IN /\ out.clock.ids <= MaxChanges
       /\ out.clock.now <= MaxClock
       /\ world' = out.world
       /\ game_state' = IF out.changes_made
                           THEN _update_game_state(out.game_state, player,
                                                   out.game_state.player_location)
                           ELSE out.game_state
       /\ changes' = out.changes
       /\ clock' = out.clock
       /\ call' = [op |-> "commit", ok |-> out.changes_made,
                   data_type |-> data_type, target_id |-> target_id,
                   before |-> Len(changes), index |-> 0]
       \* _update_game_state after a successful commit (1196-1199)
       /\ saved' = IF out.changes_made
                     THEN Snapshot(_update_game_state(out.game_state, player,
                                                      out.game_state.player_location),
                                   conversation_states, out.changes)
                     ELSE saved
       /\ UNCHANGED <<player, last, conversation_states, client, invalid_inputs>>

\* revert_last_change(data_type, target_id)
Revert(data_type, target_id) ==
    LET out == revert_last_change(world, changes, data_type, target_id)
    IN /\ world' = out.world
       /\ changes' = out.changes
       /\ call' = [op |-> "revert", ok |-> out.ok,
                   data_type |-> data_type, target_id |-> target_id,
                   before |-> Len(changes), index |-> out.index]
       /\ UNCHANGED <<player, game_state, last, clock>>
       /\ UNCHANGED talkVars

NextTracker ==
    \/ \E r \in CommitRequests : \E ticks \in [1..Len(r[3]) -> {0, 1}] :
            Commit(r[1], r[2], r[3], r[4], ticks)
    \/ \E f \in RevertFilters : Revert(f[1], f[2])

SpecTracker == InitTracker /\ [][NextTracker]_vars

\* C10: an unfiltered reversion on a non-empty log succeeds and removes the
\* record committed last, and once the log is empty again every entity has
\* the field values it had before the first commit.
C10_RevertsUndoInReverseOrder ==
    /\ (call.op = "revert" /\ call.data_type = None /\ call.target_id = None
          /\ call.before > 0)
         => (call.ok /\ call.index = call.before)
    /\ (changes = <<>>) => (world = InitWorld)

\* the place of the last-appended record of the log that matches the filter
LastMatching(log, data_type, target_id) ==
    CHOOSE i \in get_changes_for(log, data_type, target_id) :
        \A j \in get_changes_for(log, data_type, target_id) : j <= i

\* C11: a successful reversion removes exactly one record, the last-appended
\* one among those matching its filter, also among records of equal
\* timestamp, and leaves the other records and their order as they were.
C11_RevertRemovesLastMatching ==
    [][(call'.op = "revert" /\ call'.ok) =>
          changes' = RemoveAt(changes,
                              LastMatching(changes, call'.data_type, call'.target_id))]_vars

(***************************************************************************)
(* A new session: GameEngine.__init__ (src/engine.py 45-59) reads the      *)
(* tables from the data files again, _initialize_game_state (61-85) takes  *)
(* the game state, with its change log, from game_state.json, and          *)
(* _initialize_player (107-158) makes the player anew.                     *)
(***************************************************************************)
\* what the data files may hold when they are read again: what they held,
\* or the same without the sword
DataFiles ==
    {InitWorld, [InitWorld EXCEPT !.item = [shield |-> ItemEntity("shield")]]}

Reload(w) ==
    LET loaded == load_from_file(saved, clock.now, 0)
        gs == _update_game_state(loaded.game_state, InitPlayer, "tavern")
    IN /\ world' = w
       /\ player' = InitPlayer
       /\ game_state' = gs
       /\ conversation_states' = loaded.conversation_states
       /\ changes' = loaded.change_tracker
       /\ saved' = Snapshot(gs, loaded.conversation_states, loaded.change_tracker)
       /\ call' = [op |-> "reload", ok |-> TRUE, data_type |-> None, target_id |-> None,
                   before |-> Len(changes), index |-> 0]
       /\ UNCHANGED <<last, clock, client, invalid_inputs>>

NextRestart ==
    \/ NextTracker
    \/ \E w \in DataFiles : Reload(w)

SpecRestart == InitTracker /\ [][NextRestart]_vars

\* the selected record's target is in no table any more
TargetGone(w, log, data_type, target_id) ==
    LET matching == get_changes_for(log, data_type, target_id)
        c == log[Latest(log, matching)]
    IN matching # {} /\ ~(c.data_type \in Tables /\ c.target_id \in DOMAIN w[c.data_type])

\* C12: a reversion whose filter matches no record, or whose selected record
\* targets an entity that is no longer in the world, returns failure and
\* leaves the change log and every entity as they were.
C12_FailedRevertChangesNothing ==
    [][(/\ call'.op = "revert"
        /\ \/ get_changes_for(changes, call'.data_type, call'.target_id) = {}
           \/ TargetGone(world, changes, call'.data_type, call'.target_id)) =>
          (~call'.ok /\ changes' = changes /\ world' = world)]_vars

\* revert_last_change("item", "sword") has failed on a record of the sword,
\* the sword being in the tables no more
C12_Witness ==
    /\ call.op = "revert"
    /\ ~call.ok
    /\ call.data_type = "item"
    /\ call.target_id = "sword"
    /\ call.index > 0
    /\ changes[call.index].target_id = "sword"
    /\ "sword" \notin DOMAIN world.item

(***************************************************************************)
(* Text of a conversation turn: str.strip(), str.isdigit(), str.isalpha(), *)
(* str.replace() and int() on the characters of the input.                 *)
(***************************************************************************)
Digits == "0123456789"

Chars(text) == {SubSeq(text, i, i) : i \in 1..Len(text)}

\* str.strip(): the blanks at both ends go
RECURSIVE Strip(_)
Strip(text) ==
    IF Len(text) = 0 THEN ""
    ELSE IF SubSeq(text, 1, 1) = " " THEN Strip(SubSeq(text, 2, Len(text)))
    ELSE IF SubSeq(text, Len(text), Len(text)) = " "
      THEN Strip(SubSeq(text, 1, Len(text) - 1))
    ELSE text

\* str.isdigit(): at least one character and every one a digit
IsDigit(text) == Len(text) > 0 /\ Chars(text) \subseteq Chars(Digits)

\* any(c.isalpha() for c in text)
AnyAlpha(text) == Chars(text) \cap (Chars(UpperCase) \cup Chars(LowerCase)) # {}

\* text.replace(old, new) for single characters
RECURSIVE Replace(_, _, _)
Replace(text, old, new) ==
    IF Len(text) = 0 THEN ""
    ELSE (IF SubSeq(text, 1, 1) = old THEN new ELSE SubSeq(text, 1, 1))
           \o Replace(SubSeq(text, 2, Len(text)), old, new)

DigitValue(c) == (CHOOSE i \in 1..Len(Digits) : SubSeq(Digits, i, i) = c) - 1

RECURSIVE Decimal(_)
Decimal(text) ==
    IF Len(text) = 0 THEN 0
    ELSE 10 * Decimal(SubSeq(text, 1, Len(text) - 1))
           + DigitValue(SubSeq(text, Len(text), Len(text)))

\* int(text) as [raised, value]: blanks around, an optional sign, decimal
\* digits; anything else raises ValueError
int(text) ==
    LET t == Strip(text)
        signed == Len(t) > 0 /\ SubSeq(t, 1, 1) \in {"+", "-"}
        digits == IF signed THEN SubSeq(t, 2, Len(t)) ELSE t
    IN IF ~IsDigit(digits) THEN [raised |-> TRUE, value |-> 0]
       ELSE IF signed /\ SubSeq(t, 1, 1) = "-"
         THEN [raised |-> FALSE, value |-> 0 - Decimal(digits)]
       ELSE [raised |-> FALSE, value |-> Decimal(digits)]

(***************************************************************************)
(* GameEngine._is_invalid_conversation_input (src/engine.py 798-820).      *)
(***************************************************************************)
_is_invalid_conversation_input(player_input) ==
    LET cleaned_input == Strip(player_input)
    IN \/ ~Truthy(player_input)
       \/ Len(cleaned_input) < 3
       \/ ~Contains(cleaned_input, " ")
       \/ IsDigit(cleaned_input)
       \/ (Len(cleaned_input) < 5 /\ ~AnyAlpha(cleaned_input))

(***************************************************************************)
(* GameEngine._match_preset_topic (src/engine.py 822-846): the topic whose *)
(* name, or whose name with blanks for underscores, is the lower-cased and *)
(* stripped input, else the topic at the 1-based index the input spells,   *)
(* else None.                                                              *)
(***************************************************************************)
\* the first element of the list that satisfies the test, as its index; 0
\* when there is none
FirstIndex(hits) == IF hits = {} THEN 0 ELSE CHOOSE i \in hits : \A j \in hits : i <= j

\* _match_preset_topic without the index a number spells
_match_NamesOnly(player_input, npc) ==
    LET topics == Get(npc.dialogue_tree, "topics", <<>>)
        player_input_lower == Strip(Lower(player_input))
        exact == FirstIndex({i \in DOMAIN topics : Lower(topics[i]) = player_input_lower})
        spaced == FirstIndex({i \in DOMAIN topics :
                                Lower(Replace(topics[i], "_", " ")) = player_input_lower})
    IN IF exact > 0 THEN topics[exact]
       ELSE IF spaced > 0 THEN topics[spaced]
       ELSE None

_match_preset_topic(player_input, npc) ==
    LET topics == Get(npc.dialogue_tree, "topics", <<>>)
        player_input_lower == Strip(Lower(player_input))
        exact == FirstIndex({i \in DOMAIN topics : Lower(topics[i]) = player_input_lower})
        spaced == FirstIndex({i \in DOMAIN topics :
                                Lower(Replace(topics[i], "_", " ")) = player_input_lower})
        number == int(player_input_lower)
    IN IF exact > 0 THEN topics[exact]
       ELSE IF spaced > 0 THEN topics[spaced]
       ELSE IF ~number.raised /\ 0 <= number.value - 1 /\ number.value - 1 < Len(topics)
         THEN topics[number.value]
       ELSE None

(***************************************************************************)
(* AIConversationHandler (src/ai_conversation.py).  What the oracle sends  *)
(* back is an input of the turn: Failed when the request, the tool call or *)
(* its JSON fails, else the decoded arguments, a dict that may lack keys.  *)
(* A JSON value that float() is applied to is <<"number", tenths>> or      *)
(* <<"string", text>>.                                                     *)
(***************************************************************************)
Failed == [failed |-> TRUE]

Failing(x) == "failed" \in DOMAIN x

\* a preset_topic that is a JSON list: a value dict.get cannot hash
Unhashable == "[]"

\* the dict both the missing client and the except branch return
DefaultAnalysis(npc_response) ==
    [strategy |-> "dynamic", similarity_score |-> 0, preset_topic |-> None,
     is_essential |-> FALSE, npc_response |-> npc_response]

\* analyze_conversation_input (22-96); float() of a text that is no number
\* raises inside the try
analyze_conversation_input(cl, raw) ==
    IF ~cl THEN DefaultAnalysis("I'm not sure how to respond to that right now.")
    ELSE IF Failing(raw) \/ Get(raw, "similarity_score", <<"number", 0>>)[1] # "number"
      THEN DefaultAnalysis("I'm having trouble understanding. Could you rephrase that?")
    ELSE [strategy |-> Get(raw, "strategy", "dynamic"),
          similarity_score |-> Get(raw, "similarity_score", <<"number", 0>>)[2],
          preset_topic |-> Get(raw, "preset_topic", None),
          is_essential |-> Get(raw, "is_essential", FALSE),
          npc_response |-> Get(raw, "npc_response", "I'm not sure how to respond to that.")]

\* generate_dynamic_response (98-137)
generate_dynamic_response(cl, reply) ==
    IF ~cl THEN "I'm not sure how to respond to that right now."
    ELSE IF Failing(reply) THEN "I'm having trouble thinking of a response right now."
    ELSE Strip(reply.content)

\* create_conversation_node that does not mark the node as made in a
\* conversation
create_NotDynamic(topic, content, is_essential, created_at) ==
    ConversationNode(topic, content, is_essential, FALSE, created_at)

\* create_conversation_node (139-148)
create_conversation_node(topic, content, is_essential, created_at) ==
    ConversationNode(topic, content, is_essential, TRUE, created_at)

\* update_conversation_state refilling the budget instead of spending it
update_Refills(conversation_state, player_input, npc_response, similarity_score, is_essential, created_at, now) ==
    [conversation_state EXCEPT
        !.conversation_history =
            Append(@, DynamicExchange(player_input, npc_response, similarity_score,
                                      is_essential, created_at)),
        !.relationship_level = IF is_essential THEN @ + 1 ELSE @,
        !.essential_topics_created = IF is_essential THEN Append(@, player_input) ELSE @,
        !.max_questions_remaining = @ + 1,
        !.last_interaction = now]

\* update_conversation_state that lists an essential input only once
update_Deduplicates(conversation_state, player_input, npc_response, similarity_score, is_essential, created_at, now) ==
    [conversation_state EXCEPT
        !.conversation_history =
            Append(@, DynamicExchange(player_input, npc_response, similarity_score,
                                      is_essential, created_at)),
        !.relationship_level = IF is_essential THEN @ + 1 ELSE @,
        !.essential_topics_created =
            IF is_essential /\ ~InList(player_input, @) THEN Append(@, player_input) ELSE @,
        !.max_questions_remaining = Max(0, @ - 1),
        !.last_interaction = now]

\* update_conversation_state that records the exchange and leaves the budget
update_Unspent(conversation_state, player_input, npc_response, similarity_score, is_essential, created_at, now) ==
    [conversation_state EXCEPT
        !.conversation_history =
            Append(@, DynamicExchange(player_input, npc_response, similarity_score,
                                      is_essential, created_at)),
        !.relationship_level = IF is_essential THEN @ + 1 ELSE @,
        !.essential_topics_created = IF is_essential THEN Append(@, player_input) ELSE @,
        !.last_interaction = now]

\* update_conversation_state that raises the relationship with every exchange
update_Befriends(conversation_state, player_input, npc_response, similarity_score, is_essential, created_at, now) ==
    [conversation_state EXCEPT
        !.conversation_history =
            Append(@, DynamicExchange(player_input, npc_response, similarity_score,
                                      is_essential, created_at)),
        !.relationship_level = @ + 1,
        !.essential_topics_created = IF is_essential THEN Append(@, player_input) ELSE @,
        !.max_questions_remaining = Max(0, @ - 1),
        !.last_interaction = now]

\* update_conversation_state (150-177); created_at and now are the two
\* readings of the clock, the exchange's and the last interaction's
update_conversation_state(conversation_state, player_input, npc_response, similarity_score, is_essential, created_at, now) ==
    [conversation_state EXCEPT
        !.conversation_history =
            Append(@, DynamicExchange(player_input, npc_response, similarity_score,
                                      is_essential, created_at)),
        !.relationship_level = IF is_essential THEN @ + 1 ELSE @,
        !.essential_topics_created = IF is_essential THEN Append(@, player_input) ELSE @,
        !.max_questions_remaining = Max(0, @ - 1),
        !.last_interaction = now]

(***************************************************************************)
(* A session of conversations: the bartender stands in the tavern with two *)
(* scripted topics, one of them without a scripted response and one        *)
(* without a conversation starter; the hermit is elsewhere.                *)
(***************************************************************************)
\* a character's question allowance (NPC.max_daily_questions) is at most
\* MaxQuestions
MaxQuestions == 2
\* the clock is read at most MaxReadings times in the turns of a behaviour
MaxReadings == 6

Bartender(max_daily_questions) ==
    [NPCEntity("bartender") EXCEPT
        !.dialogue_tree =
            [greeting |-> "Welcome.",
             topics |-> <<"local_rumors", "ale">>,
             responses |-> [local_rumors |-> "They say the mine is haunted."],
             conversation_starters |-> [ale |-> "What do you pour?"]],
        !.max_daily_questions = max_daily_questions]

TalkWorld(max_daily_questions) ==
    [InitWorld EXCEPT
        !.npc = [bartender |-> Bartender(max_daily_questions),
                 hermit |-> [NPCEntity("hermit") EXCEPT !.location_id = "cave"]],
        !.location.tavern.npcs = <<"bartender">>]

\* GameState.conversation_history (src/game_types.py 560) beside the fields
\* of InitGameState
TalkGameState == [conversation_history |-> NoDict] @@ InitGameState

\* what the player types to the bartender: nothing, a number that is a
\* topic's index and one that is not, a topic's name as listed and as shown,
\* a short text, a single word, and a short text of punctuation and blanks
ScreenedInputs == {None, "2", "42", "ale", " Local Rumors ", "hm", "rumors", "? ?"}

\* every text the model types
TalkInputs == ScreenedInputs \cup {"what about the war", "?? ??"}

\* the dialogue trees of the world's characters
DialogueTrees == {Bartender(0).dialogue_tree, NoDict}

\* _match_preset_topic and _is_invalid_conversation_input tabulated over the
\* texts and the dialogue trees of the model
TopicOf ==
    [i \in TalkInputs, d \in DialogueTrees |->
        _match_preset_topic(i, [dialogue_tree |-> d])]

ScreenOf == [i \in TalkInputs |-> _is_invalid_conversation_input(i)]

(***************************************************************************)
(* GameEngine.talk_to_npc (src/engine.py 655-796) with _handle_preset_topic*)
(* (848-871).  oracle = [analysis, reply] is what the oracle sends back to *)
(* the two requests of a turn, should they be made; ticks[k] is the advance*)
(* of the clock before its k-th reading in the turn.  The result carries   *)
(* what the turn left behind, the line the character said, the handlers    *)
(* that were asked, how often the clock was read, whether save_to_file ran *)
(* and whether the turn ended in an exception.                             *)
(***************************************************************************)
RECURSIVE Reading(_, _, _)
Reading(clk, ticks, k) == IF k = 0 THEN clk.now ELSE Reading(clk, ticks, k - 1) + ticks[k]

Tired == "I'm getting tired of all these questions. Maybe we can talk again later?"
Curious == "*looks at you curiously*"
Unsure == "I'm not sure about that."

\* a state whose budget never counts as spent
Exhausted_Never(conversation_state) == FALSE

\* the test of the remaining questions (722)
Exhausted(conversation_state) == conversation_state.max_questions_remaining <= 0

TalkResult(ok, w, gs, cs, clk, said, asked, readings, saves, raised) ==
    [ok |-> ok, world |-> w, game_state |-> gs, conversation_states |-> cs,
     clock |-> clk, said |-> said, asked |-> asked, readings |-> readings,
     saves |-> saves, raised |-> raised]

talk_to_npc(w, gs, cs, clk, cl, npc_id, player_input, oracle, ticks) ==
    IF npc_id \notin DOMAIN w.npc
      THEN TalkResult(FALSE, w, gs, cs, clk, None, <<>>, 0, FALSE, FALSE)
    ELSE IF ~InList(npc_id, w.location[gs.player_location].npcs)
      THEN TalkResult(FALSE, w, gs, cs, clk, None, <<>>, 0, FALSE, FALSE)
    ELSE
      LET npc == w.npc[npc_id]
          created == npc_id \notin DOMAIN cs
          base == IF created THEN 1 ELSE 0
          at(k) == Reading(clk, ticks, base + k)
          after(k) == [clk EXCEPT !.now = at(k)]
          cs1 == IF created
                   THEN Put(cs, npc_id,
                            ConversationState(npc_id, npc.max_daily_questions,
                                              Reading(clk, ticks, 1)))
                   ELSE cs
          conversation_state == cs1[npc_id]
          responses == Get(npc.dialogue_tree, "responses", NoDict)
          topic == TopicOf[player_input, npc.dialogue_tree]
          starter == Get(Get(npc.dialogue_tree, "conversation_starters", NoDict), topic,
                         "Tell me about " \o Replace(topic, "_", " ") \o "!")
          analysis == analyze_conversation_input(cl, oracle.analysis)
          dynamic_response == generate_dynamic_response(cl, oracle.reply)
          Updated(said) ==
              Put(cs1, npc_id,
                  update_conversation_state(conversation_state, player_input, said,
                                            analysis.similarity_score,
                                            analysis.is_essential, at(1), at(2)))
      IN IF ~Truthy(player_input)
           THEN TalkResult(TRUE, w,
                           [gs EXCEPT !.conversation_history =
                               Put(@, npc_id, Append(Get(@, npc_id, <<>>), at(1)))],
                           cs1, after(1),
                           Get(npc.dialogue_tree, "greeting", "Hello there!"),
                           <<>>, base + 1, TRUE, FALSE)
         ELSE IF Exhausted(conversation_state)
           THEN TalkResult(TRUE, w, gs, cs1, after(0), Tired, <<>>, base, FALSE, FALSE)
         ELSE IF Truthy(topic)
           THEN TalkResult(TRUE, w, gs,
                           Put(cs1, npc_id,
                               update_conversation_state(conversation_state, starter,
                                                         Get(responses, topic, Unsure),
                                                         10, FALSE, at(1), at(2))),
                           after(2), Get(responses, topic, Unsure), <<>>, base + 2,
                           TRUE, FALSE)
         ELSE IF ScreenOf[player_input]
           THEN TalkResult(TRUE, w, gs, cs1, after(0), Curious, <<>>, base, FALSE, FALSE)
         ELSE IF analysis.strategy \in {"preset", "redirect"}
                   /\ analysis.preset_topic = Unhashable
           THEN TalkResult(FALSE, w, gs, cs1, after(0), None,
                           <<"analyze_conversation_input">>, base, FALSE, TRUE)
         ELSE IF analysis.strategy = "preset"
           THEN TalkResult(TRUE, w, gs,
                           Updated(Get(responses, analysis.preset_topic, Unsure)),
                           after(2), Get(responses, analysis.preset_topic, Unsure),
                           <<"analyze_conversation_input">>, base + 2, TRUE, FALSE)
         ELSE IF analysis.strategy = "redirect"
           THEN TalkResult(TRUE, w, gs, Updated(analysis.npc_response), after(2),
                           analysis.npc_response,
                           <<"analyze_conversation_input">>, base + 2, TRUE, FALSE)
         ELSE IF analysis.is_essential
           THEN TalkResult(TRUE,
                           [w EXCEPT !.npc[npc_id].conversation_nodes =
                               Append(@, create_conversation_node(player_input,
                                                                  dynamic_response,
                                                                  TRUE, at(3)))],
                           gs, Updated(dynamic_response), after(3), dynamic_response,
                           <<"analyze_conversation_input", "generate_dynamic_response">>,
                           base + 3, TRUE, FALSE)
         ELSE TalkResult(TRUE, w, gs, Updated(dynamic_response), after(2),
                         dynamic_response,
                         <<"analyze_conversation_input", "generate_dynamic_response">>,
                         base + 2, TRUE, FALSE)

\* the arguments of the analysis tool call as the oracle may send them: none
\* (the request fails), an empty dict, a scripted topic, a redirection marked
\* essential, an essential and an inessential dynamic answer (the latter
\* with a similarity above 1.0), a strategy outside the enumeration, a
\* topic that is a list, and a similarity that is no number
NoAnswer == [analysis |-> Failed, reply |-> Failed]

Composed == [content |-> " The cellar is older than the town. "]

OracleAnswers ==
    {NoAnswer,
     [analysis |-> NoDict, reply |-> Composed],
     [analysis |-> [strategy |-> "preset", similarity_score |-> <<"number", 9>>,
                    preset_topic |-> "local_rumors", is_essential |-> FALSE],
      reply |-> Failed],
     [analysis |-> [strategy |-> "redirect", similarity_score |-> <<"number", 5>>,
                    preset_topic |-> "local_rumors", is_essential |-> TRUE,
                    npc_response |-> "That reminds me of the rumors."],
      reply |-> Failed],
     [analysis |-> [strategy |-> "dynamic", similarity_score |-> <<"number", 2>>,
                    is_essential |-> TRUE],
      reply |-> Composed],
     [analysis |-> [strategy |-> "dynamic", similarity_score |-> <<"number", 15>>,
                    is_essential |-> FALSE],
      reply |-> Failed],
     [analysis |-> [strategy |-> "gossip", similarity_score |-> <<"number", 3>>,
                    is_essential |-> TRUE],
      reply |-> Composed],
     [analysis |-> [strategy |-> "preset", similarity_score |-> <<"number", 9>>,
                    preset_topic |-> Unhashable, is_essential |-> FALSE],
      reply |-> Failed],
     [analysis |-> [strategy |-> "redirect", similarity_score |-> <<"string", "high">>,
                    preset_topic |-> "ale", is_essential |-> TRUE],
      reply |-> Composed]}

\* the turns <<npc_id, player_input, oracle>>: the bartender with an input
\* that is answered without the oracle, with a question under each oracle
\* answer, and with a longer text of punctuation and blanks; a character
\* who is elsewhere and one who does not exist
TalkTurns ==
    {<<"bartender", i, NoAnswer>> : i \in ScreenedInputs}
      \cup {<<"bartender", "what about the war", o>> : o \in OracleAnswers}
      \cup {<<"bartender", "?? ??", NoAnswer>>,
            <<"bartender", "?? ??", [analysis |-> NoDict, reply |-> Composed]>>,
            <<"hermit", None, NoAnswer>>,
            <<"ghost", "ale", NoAnswer>>}

\* the advances of the clock before the readings of a turn: two readings
\* of a conversation are taken a tick apart
TalkTicks == [k \in 1..4 |-> 1]

InitTalk ==
    /\ world \in {TalkWorld(b) : b \in {0, MaxQuestions}}
    /\ client \in BOOLEAN
    /\ invalid_inputs = NoFile
    /\ changes = <<>>
    /\ clock = [now |-> 0, ids |-> 0]
    /\ call = NoValidatorCall
    /\ player = InitPlayer
    /\ game_state = TalkGameState
    /\ last = NoCall
    /\ conversation_states = NoDict
    /\ saved = Snapshot(TalkGameState, NoDict, <<>>)

\* the remaining budget of a character's conversation state, -1 when the
\* character has none yet
Budget(cs, npc_id) ==
    IF npc_id \in DOMAIN cs THEN cs[npc_id].max_questions_remaining ELSE -1

\* one call of talk_to_npc.  An oracle answer the turn does not use is
\* fixed, and without a client there is no answer.
Talk(npc_id, player_input, oracle, ticks) ==
    LET out == talk_to_npc(world, game_state, conversation_states, clock, client,
                           npc_id, player_input, oracle, ticks)
    IN /\ (~client \/ out.asked = <<>>) => oracle.analysis = Failed
       /\ (~client \/ ~InList("generate_dynamic_response", out.asked))
             => oracle.reply = Failed
       /\ out.clock.now <= MaxReadings
       /\ world' = out.world
       /\ game_state' = out.game_state
       /\ conversation_states' = out.conversation_states
       /\ clock' = out.clock
       /\ saved' = IF out.saves
                     THEN Snapshot(out.game_state, out.conversation_states, changes)
                     ELSE saved
       /\ call' = [op |-> "talk", ok |-> out.ok, npc_id |-> npc_id,
                   player_input |-> player_input, said |-> out.said,
                   asked |-> out.asked, saves |-> out.saves, raised |-> out.raised,
                   budget |-> Budget(conversation_states, npc_id), oracle |-> oracle]
       /\ UNCHANGED <<player, last, changes, client, invalid_inputs>>

NextTalk ==
    \E t \in TalkTurns : Talk(t[1], t[2], t[3], TalkTicks)

SpecTalk == InitTalk /\ [][NextTalk]_vars

\* C13: a character's remaining budget never increases and never goes below
\* 0, and a turn with a character whose budget is 0 asks neither the
\* classification nor the response generation and leaves the budget at 0.
C13_BudgetOnlyFalls ==
    [][\A n \in DOMAIN conversation_states :
          /\ n \in DOMAIN conversation_states'
          /\ conversation_states'[n].max_questions_remaining
                <= conversation_states[n].max_questions_remaining
          /\ conversation_states'[n].max_questions_remaining >= 0
          /\ (conversation_states[n].max_questions_remaining = 0 /\ call'.npc_id = n)
                => call'.asked = <<>>]_vars

\* a turn with free text was put to the bartender whose budget had run out
\* after MaxQuestions exchanges
C13_Witness ==
    /\ call.op = "talk"
    /\ call.npc_id = "bartender"
    /\ call.player_input = "what about the war"
    /\ call.budget = 0
    /\ "bartender" \in DOMAIN conversation_states
    /\ Len(conversation_states["bartender"].conversation_history) = MaxQuestions
    /\ conversation_states["bartender"].max_questions_remaining = 0

\* C14: a turn with non-empty input, put to a character whose remaining
\* budget is 0, returns the fixed tired line without asking the oracle, and
\* leaves every conversation state, the characters' conversation nodes and
\* the saved snapshot as they were.
C14_ExhaustedTurnChangesNothing ==
    [][(/\ call'.op = "talk"
        /\ call'.npc_id \in DOMAIN conversation_states
        /\ conversation_states[call'.npc_id].max_questions_remaining = 0
        /\ Truthy(call'.player_input)) =>
          (/\ call'.ok
           /\ call'.said
                = "I'm getting tired of all these questions. Maybe we can talk again later?"
           /\ call'.asked = <<>>
           /\ conversation_states' = conversation_states
           /\ world' = world
           /\ saved' = saved)]_vars

\* the index of a topic was typed to the bartender after MaxQuestions
\* exchanges, and the tired line came back
C14_Witness ==
    /\ call.op = "talk"
    /\ call.player_input = "2"
    /\ call.budget = 0
    /\ call.said = Tired
    /\ Len(conversation_states["bartender"].conversation_history) = MaxQuestions
    /\ world.npc.bartender.max_daily_questions = MaxQuestions

\* the state a turn finds for a character: the one there is, or the one the
\* turn makes from the character's question allowance
Found(cs, w, npc_id) ==
    IF npc_id \in DOMAIN cs THEN cs[npc_id]
    ELSE ConversationState(npc_id, w.npc[npc_id].max_daily_questions, 0)

\* a text of digits and blanks, and a text without a letter or a digit
PurelyNumeric(text) == Chars(text) \subseteq Chars(Digits) \cup {" "} /\ Chars(text) \cap Chars(Digits) # {}
PurePunctuation(text) == Chars(text) \cap (Chars(UpperCase) \cup Chars(LowerCase) \cup Chars(Digits)) = {}

\* trivial: under three characters, purely numeric, pure punctuation or a
\* single word
Trivial(text) ==
    \/ Len(Strip(text)) < 3
    \/ PurelyNumeric(Strip(text))
    \/ PurePunctuation(Strip(text))
    \/ ~Contains(Strip(text), " ")

\* C15: with budget left, a trivial input that is no topic's name and no
\* valid index gets the fixed confused reaction, the oracle is not asked, no
\* exchange is appended, and budget, relationship level and essential-topic
\* list stay as they were.
C15_TrivialInputIsScreened ==
    [][(/\ call'.op = "talk"
        /\ call'.ok
        /\ Truthy(call'.player_input)
        /\ Found(conversation_states, world, call'.npc_id).max_questions_remaining > 0
        /\ Trivial(call'.player_input)
        /\ TopicOf[call'.player_input, world.npc[call'.npc_id].dialogue_tree] = None) =>
          LET before == Found(conversation_states, world, call'.npc_id)
              after == conversation_states'[call'.npc_id]
          IN /\ call'.said = "*looks at you curiously*"
             /\ call'.asked = <<>>
             /\ after.conversation_history = before.conversation_history
             /\ after.max_questions_remaining = before.max_questions_remaining
             /\ after.relationship_level = before.relationship_level
             /\ after.essential_topics_created = before.essential_topics_created]_vars

\* the topics of the list that a text names: by the raw name, by the name
\* with blanks for underscores, or by the 1-based index, the text trimmed
\* and case-folded
Named(text, topics) ==
    {k \in DOMAIN topics :
        \/ Lower(Strip(text)) = Lower(topics[k])
        \/ Lower(Strip(text)) = Lower(Replace(topics[k], "_", " "))
        \/ (IsDigit(Strip(text)) /\ Decimal(Strip(text)) = k)}

NamedByInput == [text \in TalkInputs |-> Named(text, Bartender(0).dialogue_tree.topics)]

\* C16: with budget left, an input that names a scripted topic by its raw
\* name, its humanized form or its 1-based index is answered with that
\* topic's scripted response and the oracle is not asked; exactly one
\* exchange of similarity 1.0, not essential, is appended, the budget drops
\* by 1, and relationship level, essential-topic list and the characters'
\* conversation nodes stay as they were.
C16_ScriptedTopicAnswered ==
    [][(/\ call'.op = "talk"
        /\ call'.ok
        /\ Truthy(call'.player_input)
        /\ Found(conversation_states, world, call'.npc_id).max_questions_remaining > 0
        /\ NamedByInput[call'.player_input] # {}) =>
          LET before == Found(conversation_states, world, call'.npc_id)
              after == conversation_states'[call'.npc_id]
              tree == world.npc[call'.npc_id].dialogue_tree
              n == Len(before.conversation_history)
          IN /\ \A k \in NamedByInput[call'.player_input] :
                    tree.topics[k] \in DOMAIN tree.responses
                       => call'.said = tree.responses[tree.topics[k]]
             /\ call'.asked = <<>>
             /\ Len(after.conversation_history) = n + 1
             /\ SubSeq(after.conversation_history, 1, n) = before.conversation_history
             /\ after.conversation_history[n + 1].npc_response = call'.said
             /\ after.conversation_history[n + 1].similarity_score = 10
             /\ after.conversation_history[n + 1].is_essential = FALSE
             /\ after.max_questions_remaining = before.max_questions_remaining - 1
             /\ after.relationship_level = before.relationship_level
             /\ after.essential_topics_created = before.essential_topics_created
             /\ world' = world]_vars

\* the bartender was asked for " Local Rumors " as the first question and
\* gave the scripted response
C16_Witness ==
    /\ call.op = "talk"
    /\ call.player_input = " Local Rumors "
    /\ call.said = "They say the mine is haunted."
    /\ call.budget = -1
    /\ conversation_states["bartender"].max_questions_remaining = MaxQuestions - 1
    /\ Len(conversation_states["bartender"].conversation_history) = 1

\* C17: a turn either leaves a character's history, budget, relationship
\* level and essential-topic list alone, or appends exactly one exchange,
\* takes 1 from the budget (not below 0) and sets the last interaction to a
\* reading of the clock made in the turn; the relationship level then grows
\* by 1 and the raw input is appended to the essential-topic list, also when
\* it is listed already, exactly when the exchange is essential.
C17_UpdateAppendsOneExchange ==
    [][(call'.op = "talk" /\ call'.ok) =>
          LET before == Found(conversation_states, world, call'.npc_id)
              after == conversation_states'[call'.npc_id]
              n == Len(before.conversation_history)
              e == after.conversation_history[n + 1]
          IN \/ /\ after.conversation_history = before.conversation_history
                /\ after.max_questions_remaining = before.max_questions_remaining
                /\ after.relationship_level = before.relationship_level
                /\ after.essential_topics_created = before.essential_topics_created
             \/ /\ Len(after.conversation_history) = n + 1
                /\ SubSeq(after.conversation_history, 1, n) = before.conversation_history
                /\ after.max_questions_remaining
                      = Max(0, before.max_questions_remaining - 1)
                /\ after.last_interaction > clock.now
                /\ after.last_interaction <= clock'.now
                /\ after.last_interaction >= e.created_at
                /\ after.relationship_level
                      = before.relationship_level + (IF e.is_essential THEN 1 ELSE 0)
                /\ after.essential_topics_created
                      = IF e.is_essential
                          THEN Append(before.essential_topics_created, call'.player_input)
                          ELSE before.essential_topics_created]_vars

\* the same question was put to the bartender twice and was essential both
\* times
C17_Witness ==
    /\ call.op = "talk"
    /\ call.player_input = "what about the war"
    /\ "bartender" \in DOMAIN conversation_states
    /\ conversation_states["bartender"].relationship_level = 2
    /\ conversation_states["bartender"].essential_topics_created
          = <<"what about the war", "what about the war">>
    /\ conversation_states["bartender"].max_questions_remaining = MaxQuestions - 2

\* C18: a turn appends a conversation node to the character it is put to
\* exactly when the oracle's classification was acted on as dynamic (its
\* strategy neither preset nor redirect) and flagged essential; the node
\* carries the raw input as topic and the delivered response as content and
\* is marked essential and dynamic.  Every other turn, and every character
\* not spoken to, keeps the nodes there were: no node is ever removed.
C18_NodeIffDynamicEssential ==
    [][\A n \in DOMAIN world.npc :
          LET nodes == world.npc[n].conversation_nodes
              a == analyze_conversation_input(client, call'.oracle.analysis)
              appends == /\ call'.op = "talk"
                         /\ call'.npc_id = n
                         /\ call'.ok
                         /\ call'.asked # <<>>
                         /\ a.strategy \notin {"preset", "redirect"}
                         /\ a.is_essential
          IN /\ n \in DOMAIN world'.npc
             /\ IF appends
                  THEN /\ Len(world'.npc[n].conversation_nodes) = Len(nodes) + 1
                       /\ SubSeq(world'.npc[n].conversation_nodes, 1, Len(nodes)) = nodes
                       /\ LET node == world'.npc[n].conversation_nodes[Len(nodes) + 1]
                          IN /\ node.topic = call'.player_input
                             /\ node.content = call'.said
                             /\ node.is_essential
                             /\ node.created_dynamically
                  ELSE world'.npc[n].conversation_nodes = nodes]_vars

\* the bartender has had two essential exchanges, a redirected one and a
\* dynamic one, and remembers one node, that of the dynamic one
C18_Witness ==
    /\ call.op = "talk"
    /\ "bartender" \in DOMAIN conversation_states
    /\ conversation_states["bartender"].relationship_level = 2
    /\ Len(world.npc.bartender.conversation_nodes) = 1
    /\ world.npc.bartender.conversation_nodes[1].topic = "what about the war"
    /\ world.npc.bartender.conversation_nodes[1].content = "The cellar is older than the town."
    /\ \E i \in DOMAIN conversation_states["bartender"].conversation_history :
          conversation_states["bartender"].conversation_history[i].npc_response
             = "That reminds me of the rumors."

\* C19: whatever the oracle sends back, every exchange stored in a history
\* has a similarity score between 0 and 1.0 (0..10 tenths).
C19_StoredSimilarityInRange ==
    \A n \in DOMAIN conversation_states :
       \A i \in DOMAIN conversation_states[n].conversation_history :
          /\ conversation_states[n].conversation_history[i].similarity_score >= 0
          /\ conversation_states[n].conversation_history[i].similarity_score <= 10

\* an answer that decodes but fails the tool's schema: a strategy outside
\* the enumeration, a similarity that is no number between 0 and 1.0, or a
\* topic that is no text
Malformed(raw) ==
    /\ ~Failing(raw)
    /\ \/ Get(raw, "strategy", "dynamic") \notin {"preset", "redirect", "dynamic"}
       \/ Get(raw, "similarity_score", <<"number", 0>>)[1] # "number"
       \/ Get(raw, "similarity_score", <<"number", 0>>)[2] \notin 0..10
       \/ Get(raw, "preset_topic", None) = Unhashable

\* C20: when the oracle is unavailable, its call fails or its answer is
\* malformed, the conversation classification is the fixed default (dynamic,
\* not essential, similarity 0), nothing is raised, and the turn completes
\* with an exchange recorded under that default.
C20_OracleFailureGivesDefault ==
    [][(/\ call'.op = "talk"
        /\ call'.asked # <<>>
        /\ \/ ~client
           \/ Failing(call'.oracle.analysis)
           \/ Malformed(call'.oracle.analysis)) =>
          LET analysis == analyze_conversation_input(client, call'.oracle.analysis)
              history == conversation_states'[call'.npc_id].conversation_history
          IN /\ analysis.strategy = "dynamic"
             /\ ~analysis.is_essential
             /\ analysis.similarity_score = 0
             /\ call'.ok
             /\ ~call'.raised
             /\ history[Len(history)].similarity_score = 0
             /\ ~history[Len(history)].is_essential]_vars

(***************************************************************************)
(* Saving and loading (src/game_types.py 615-700).  A session starts from  *)
(* whatever game_state.json is, changes the game state through the         *)
(* operations that write to it, and may at any point save the state and    *)
(* load it again, or be started again from the file.                       *)
(***************************************************************************)
\* what the file may be when it does not come from save_to_file: missing,
\* empty, blank, cut off in the middle, a JSON document that is no dict, an
\* empty dict, and dicts with a conversation state, an exchange, an action
\* or a change record that lacks a key its constructor needs
BrokenFiles ==
    {NoFile, TextFile(""), TextFile("  "), TextFile("{\"session_id\": "),
     JsonFile("list", <<>>), JsonFile("null", None),
     JsonFile("dict", [conversation_states |->
                          [bartender |-> [max_questions_remaining |-> 1]]]),
     JsonFile("dict", [conversation_states |->
                          [bartender |-> [npc_id |-> "bartender",
                                          conversation_history |->
                                              <<[player_input |-> "hello"]>>]]]),
     JsonFile("dict", [player_gold |-> 7,
                       ai_generated_actions |-> [sing |-> [id |-> "sing"]]]),
     JsonFile("dict", [player_gold |-> 7,
                       change_tracker |-> [changes |-> <<[data_type |-> "item"]>>]])}

\* a document that lacks keys but decodes
SparseFile == JsonFile("dict", [player_gold |-> 7])

StartFiles == BrokenFiles \cup {SparseFile}

\* the fields of an Action beside the four the executor reads (236-250)
AIAction(a) ==
    a @@ [name |-> "Sing", description |-> "a song", action_type |-> "social",
          parameters |-> NoDict, targets |-> <<>>, duration |-> None,
          cooldown |-> None, success_chance |-> 10, ai_generated |-> TRUE]

\* the actions registered and executed: one that records a world event and
\* changes the weather, and one that changes a relationship
StoredActions ==
    {MkAction(NoDict, <<>>, << <<"trigger_event", [event_id |-> "e1"]>>,
                               <<"change_weather", [weather |-> "rain"]>> >>),
     MkAction(NoDict, <<>>, << <<"improve_relationship", [npc_id |-> "bartender"]>> >>)}

\* the turn of a conversation: an essential question
StoredTurns ==
    {<<"bartender", "what about the war",
       [analysis |-> [strategy |-> "dynamic", similarity_score |-> <<"number", 2>>,
                      is_essential |-> TRUE],
        reply |-> Composed]>>}

\* a committed modification
StoredRequest == <<"item", "sword", << <<"description", "a chipped blade">> >>, ScenarioA>>

\* the game state in memory
Memory == GameState(game_state, conversation_states, changes)

\* GameEngine.__init__ on the file: load_from_file, the player made anew and
\* _update_game_state, which saves
InitPersist ==
    \E file \in StartFiles :
        LET loaded == load_from_file(file, 0, 0)
            gs == _update_game_state(loaded.game_state, InitPlayer, "tavern")
        IN /\ world = TalkWorld(MaxQuestions)
           /\ player = InitPlayer
           /\ game_state = gs
           /\ conversation_states = loaded.conversation_states
           /\ changes = loaded.change_tracker
           /\ saved = Snapshot(gs, loaded.conversation_states, loaded.change_tracker)
           /\ clock = [now |-> 0, ids |-> 0]
           /\ call = [op |-> "load", file |-> file, loaded |-> loaded]
           /\ last = NoCall
           /\ client = TRUE
           /\ invalid_inputs = NoFile

\* the process ends and is started on the file, which is as it was saved
\* last or has been damaged meanwhile.  load_from_file draws a uuid4 whether
\* or not the file has a session id, and the values uuid4 gives are numbered.
Start(file) ==
    LET loaded == load_from_file(file, clock.now, clock.ids + 1)
        gs == _update_game_state(loaded.game_state, InitPlayer, "tavern")
    IN /\ clock.ids < MaxChanges
       /\ world' = TalkWorld(MaxQuestions)
       /\ player' = InitPlayer
       /\ game_state' = gs
       /\ conversation_states' = loaded.conversation_states
       /\ changes' = loaded.change_tracker
       /\ saved' = Snapshot(gs, loaded.conversation_states, loaded.change_tracker)
       /\ clock' = [clock EXCEPT !.ids = @ + 1]
       /\ call' = [op |-> "load", file |-> file, loaded |-> loaded]
       /\ last' = NoCall
       /\ UNCHANGED <<client, invalid_inputs>>

\* game_state.save_to_file() and then GameState.load_from_file(): the state
\* loaded takes the place of the one saved
SaveAndLoad ==
    LET file == Snapshot(game_state, conversation_states, changes)
        loaded == load_from_file(file, clock.now, clock.ids + 1)
    IN /\ clock.ids < MaxChanges
       /\ saved' = file
       /\ game_state' = loaded.game_state
       /\ conversation_states' = loaded.conversation_states
       /\ changes' = loaded.change_tracker
       /\ clock' = [clock EXCEPT !.ids = @ + 1]
       /\ call' = [op |-> "save and load", before |-> Memory, loaded |-> loaded]
       /\ UNCHANGED <<world, player, last, client, invalid_inputs>>

\* game_state.add_ai_action(action)
AddAIAction(action) ==
    /\ game_state' = add_ai_action(game_state, action)
    /\ saved' = Snapshot(add_ai_action(game_state, action), conversation_states, changes)
    /\ call' = [op |-> "add_ai_action", action_id |-> action.id]
    /\ UNCHANGED <<world, player, last, clock, client, invalid_inputs, conversation_states, changes>>

\* game_state.remove_ai_action(action_id): nothing is saved when the id is
\* not registered
RemoveAIAction(action_id) ==
    /\ game_state' = remove_ai_action(game_state, action_id)
    /\ saved' = IF action_id \in DOMAIN game_state.ai_generated_actions
                  THEN Snapshot(remove_ai_action(game_state, action_id),
                                conversation_states, changes)
                  ELSE saved
    /\ call' = [op |-> "remove_ai_action", action_id |-> action_id]
    /\ UNCHANGED <<world, player, last, clock, client, invalid_inputs, conversation_states, changes>>

NextPersist ==
    \/ \E file \in BrokenFiles \cup {saved} : Start(file)
    \/ SaveAndLoad
    \/ \E a \in StoredActions : AddAIAction(AIAction(a))
    \/ \E id \in {"act", "none"} : RemoveAIAction(id)
    \/ \E a \in StoredActions : Execute(AIAction(a))
    \/ \E t \in StoredTurns : Talk(t[1], t[2], t[3], TalkTicks)
    \/ Commit(StoredRequest[1], StoredRequest[2], StoredRequest[3], StoredRequest[4], <<0>>)

SpecPersist == InitPersist /\ [][NextPersist]_vars

\* C21: saving a game state and loading the file gives the state back:
\* session id and timestamp, the player's fields, the change log in its
\* order, every conversation state with its history, essential topics,
\* relationship, budget and last interaction, the world events, the
\* temporary effects and the registered AI actions.
C21_SaveThenLoadIsIdentity ==
    call.op = "save and load" => call.loaded = call.before

\* a state with a change record, a conversation with an essential exchange,
\* a world event, a temporary effect and a registered action has been saved
\* and loaded
C21_Witness ==
    /\ call.op = "save and load"
    /\ changes # <<>>
    /\ "bartender" \in DOMAIN conversation_states
    /\ conversation_states["bartender"].essential_topics_created # <<>>
    /\ game_state.world_events # <<>>
    /\ game_state.temporary_effects # NoDict
    /\ game_state.ai_generated_actions # NoDict

\* C22: loading never fails.  A file that is missing, empty, cut off, no
\* dict, or a dict that a constructor of load_from_file cannot take gives
\* the default state: the tavern, health 100, mana 50, gold 100, level 1,
\* an empty change log and no conversation states.
C22_UnreadableFileGivesDefault ==
    (call.op = "load" /\ call.file \in BrokenFiles) =>
        /\ call.loaded.game_state.player_location = "tavern"
        /\ call.loaded.game_state.player_health = 100
        /\ call.loaded.game_state.player_mana = 50
        /\ call.loaded.game_state.player_gold = 100
        /\ call.loaded.game_state.player_level = 1
        /\ call.loaded.change_tracker = <<>>
        /\ call.loaded.conversation_states = NoDict

\* a session that had a conversation and a commit is started again on a
\* file whose change record lacks keys
C22_Witness ==
    /\ call.op = "load"
    /\ call.file \in BrokenFiles
    /\ call.file.kind = "json"
    /\ call.file.type = "dict"
    /\ "change_tracker" \in DOMAIN call.file.value
    /\ clock.now > 0
    /\ clock.ids = 2

\* C23: once a committed modification or a successful reversion is through,
\* game_state.json holds the game state that is in memory, change log and
\* conversation states included.
C23_FileFollowsEveryMutation ==
    (call.op \in {"commit", "revert"} /\ call.ok) =>
        saved = Snapshot(game_state, conversation_states, changes)

\* the checks of a can_perform call kept in `last`, each on its own
LevelFails ==
    "level" \in DOMAIN last.action.requirements
      /\ last.player.level < last.action.requirements["level"]

\* the cost entries on mana, health or gold that exceed what the player holds
Unpayable ==
    {i \in DOMAIN last.action.cost :
        \/ last.action.cost[i][1] = "mana" /\ last.player.mana < last.action.cost[i][2]
        \/ last.action.cost[i][1] = "health" /\ last.player.health < last.action.cost[i][2]
        \/ last.action.cost[i][1] = "gold" /\ last.player.gold < last.action.cost[i][2]}

MissingItems ==
    {i \in DOMAIN Get(last.action.requirements, "items", <<>>) :
        ~InList(last.action.requirements["items"][i], last.player.inventory)}

MissingSkills ==
    {i \in DOMAIN Get(last.action.requirements, "skills", <<>>) :
        ~InList(last.action.requirements["skills"][i], last.player.skills)}

ElsewhereThanRequired ==
    "location" \in DOMAIN last.action.requirements
      /\ last.game_state.player_location # last.action.requirements["location"]

\* C24: can_perform checks the level floor, then the mana, health and gold
\* entries of the cost map in the map's order, then the required items, the
\* required skills and the location; the reason is that of the first check
\* that fails, and the player and the game state are left as they were.
C24_FirstFailingCheckDecides ==
    last.op = "can_perform" =>
        /\ last.result.kind = "Requires level" <=> LevelFails
        /\ last.result.kind = "Not enough" <=> (~LevelFails /\ Unpayable # {})
        /\ last.result.kind = "Not enough" =>
              /\ last.result.id \in {last.action.cost[i][1] : i \in Unpayable}
              /\ \A i \in Unpayable :
                    \E j \in Unpayable : j <= i /\ last.action.cost[j][1] = last.result.id
        /\ last.result.kind = "Missing required item" <=>
              (~LevelFails /\ Unpayable = {} /\ MissingItems # {})
        /\ last.result.kind = "Missing required skill" <=>
              (~LevelFails /\ Unpayable = {} /\ MissingItems = {} /\ MissingSkills # {})
        /\ last.result.kind = "Must be at" <=>
              (~LevelFails /\ Unpayable = {} /\ MissingItems = {} /\ MissingSkills = {}
                 /\ ElsewhereThanRequired)
        /\ last.result.ok <=>
              (~LevelFails /\ Unpayable = {} /\ MissingItems = {} /\ MissingSkills = {}
                 /\ ~ElsewhereThanRequired)
        /\ last.result = last.can
        /\ player = last.player
        /\ game_state = last.game_state

\* a cost the player cannot pay and a required item the player lacks: the
\* cost is the reason
C24_Witness ==
    /\ last.op = "can_perform"
    /\ Unpayable # {}
    /\ MissingItems # {}
    /\ last.result.kind = "Not enough"

\* C24 as stated: every resource named in the cost map is compared with what
\* the player holds, a stamina entry, which is taken from health, included.
C24_EveryNamedResourceIsChecked ==
    (last.op = "can_perform" /\ last.result.ok) =>
        \A i \in DOMAIN last.action.cost :
            last.action.cost[i][1] = "stamina" =>
                (last.player.max_health * last.action.cost[i][2]) \div 100
                    <= last.player.health

\* the action of the last call without the i-th entry of its effect map
WithoutEffect(i) == [last.action EXCEPT !.effects = RemoveAt(@, i)]

\* C25: an entry of the effect map whose tag the executor does not know
\* changes nothing: execute ends as it ends on the same action without the
\* entry, in the player, the game state and the result, and an allowed
\* action that has no other effect returns Success without raising.
C25_UnknownTagIsNoOp ==
    last.op = "execute" =>
        \A i \in DOMAIN last.action.effects :
            last.action.effects[i][1] \notin Vocabulary =>
                /\ player = execute(WithoutEffect(i), last.player, last.game_state).player
                /\ game_state =
                      execute(WithoutEffect(i), last.player, last.game_state).game_state
                /\ last.result =
                      execute(WithoutEffect(i), last.player, last.game_state).result
                /\ last.raised =
                      execute(WithoutEffect(i), last.player, last.game_state).raised
                /\ (Len(last.action.effects) = 1 /\ last.can.ok) =>
                      (last.result = Success /\ ~last.raised
                         /\ game_state = last.game_state)

\* an unknown tag ahead of a heal: the heal is applied
C25_Witness ==
    /\ last.op = "execute"
    /\ last.can.ok
    /\ Len(last.action.effects) = 2
    /\ last.action.effects[1][1] = "summon_dragon"
    /\ last.action.effects[2][1] = "heal"
    /\ player.health > last.player.health
    /\ last.result = Success

\* the records a step has put on the log
Appended == {i \in DOMAIN changes' : i > Len(changes)}

\* C26: add_change never rejects.  Each record a commit logs is put at the
\* end of the log, carries the category, target, field, old value, new
\* value, utterance and reasoning it was called with and an id no record had
\* before, and the records logged earlier keep their places.
C26_AddChangeAppendsOneRecord ==
    [][call'.op = "commit" =>
          /\ Len(changes') >= Len(changes)
          /\ SubSeq(changes', 1, Len(changes)) = changes
          /\ \A i \in Appended :
                /\ changes'[i].change_id > clock.ids
                /\ \A j \in DOMAIN changes' : j # i => changes'[j].change_id # changes'[i].change_id
                /\ changes'[i].data_type = call'.data_type
                /\ changes'[i].target_id = call'.target_id
                /\ changes'[i].reasoning = "because"
                /\ changes'[i].old_value =
                      world[call'.data_type][call'.target_id][changes'[i].field_name]
                /\ \E r \in CommitRequests :
                      /\ r[1] = call'.data_type /\ r[2] = call'.target_id
                      /\ r[4] = changes'[i].user_input
                      /\ \E k \in DOMAIN r[3] :
                            /\ r[3][k][1] = changes'[i].field_name
                            /\ r[3][k][2] = changes'[i].new_value]_vars

\* a commit has logged its records behind one that was there
C26_Witness ==
    /\ call.op = "commit"
    /\ call.ok
    /\ call.before > 0
    /\ Len(changes) > call.before

\* the filters of a query: none, a category, a target, and both
QueryFilters == RevertFilters \cup {<<None, "sword">>, <<"skill", "sword">>}

\* the places of the records of the log that a filter asks for
Asked(f) ==
    {i \in DOMAIN changes :
        /\ f[1] # None => changes[i].data_type = f[1]
        /\ f[2] # None => changes[i].target_id = f[2]}

\* C27: get_changes_for gives exactly the records of the category asked for,
\* when one is, and of the target asked for, when one is, in the order of
\* the log; without a filter it gives the whole log.
C27_QueryReturnsMatchingInOrder ==
    \A f \in QueryFilters :
        /\ get_changes_for(changes, f[1], f[2]) = Asked(f)
        /\ Len(get_changes_for_list(changes, f[1], f[2])) = Cardinality(Asked(f))
        /\ \A i \in Asked(f) :
              get_changes_for_list(changes, f[1], f[2])
                  [Cardinality({j \in Asked(f) : j <= i})] = changes[i]
        /\ f = <<None, None>> => get_changes_for_list(changes, f[1], f[2]) = changes

\* a reversion asked for the records of a category of which the log had one
\* and another
C27_Witness ==
    /\ call.op = "revert"
    /\ call.ok
    /\ call.data_type = "skill"
    /\ call.before = 2
    /\ changes # <<>>
    /\ changes[1].data_type = "item"

(***************************************************************************)
(* Two characters in the tavern: the bartender and a bard who has no       *)
(* dialogue tree and answers one question.                                 *)
(***************************************************************************)
CompanyWorld ==
    [TalkWorld(MaxQuestions) EXCEPT
        !.npc = [bartender |-> Bartender(MaxQuestions),
                 bard |-> [NPCEntity("bard") EXCEPT !.max_daily_questions = 1],
                 hermit |-> [NPCEntity("hermit") EXCEPT !.location_id = "cave"]],
        !.location.tavern.npcs = <<"bartender", "bard">>]

\* a greeting and a question for each of the two, with and without an
\* answer of the oracle, a topic of the bartender's, and a character who is
\* elsewhere
CompanyTurns ==
    {<<n, i, NoAnswer>> : n \in {"bartender", "bard"}, i \in {None, "what about the war"}}
      \cup {<<"bartender", "ale", NoAnswer>>, <<"hermit", None, NoAnswer>>}
      \cup {<<"bartender", "what about the war",
              [analysis |-> [strategy |-> "dynamic", similarity_score |-> <<"number", 2>>,
                             is_essential |-> TRUE],
               reply |-> Composed]>>,
            <<"bard", "what about the war", [analysis |-> NoDict, reply |-> Composed]>>}

InitCompany ==
    /\ world = CompanyWorld
    /\ client \in BOOLEAN
    /\ invalid_inputs = NoFile
    /\ changes = <<>>
    /\ clock = [now |-> 0, ids |-> 0]
    /\ call = NoValidatorCall
    /\ player = InitPlayer
    /\ game_state = InitGameState
    /\ last = NoCall
    /\ conversation_states = NoDict
    /\ saved = Snapshot(InitGameState, NoDict, <<>>)

NextCompany == \E t \in CompanyTurns : Talk(t[1], t[2], t[3], TalkTicks)

SpecCompany == InitCompany /\ [][NextCompany]_vars

\* C28: the first turn with a character makes the character's conversation
\* state, with the character's allowance as budget, no history and
\* relationship level 0 before the turn's own exchange; a later turn goes on
\* from the state that is there; and a turn with one character leaves the
\* state of every other character as it was.
C28_OneStatePerCharacter ==
    [][call'.op = "talk" =>
          /\ \A n \in DOMAIN conversation_states :
                /\ n \in DOMAIN conversation_states'
                /\ n # call'.npc_id => conversation_states'[n] = conversation_states[n]
                /\ n = call'.npc_id =>
                      /\ SubSeq(conversation_states'[n].conversation_history, 1,
                                Len(conversation_states[n].conversation_history))
                            = conversation_states[n].conversation_history
                      /\ conversation_states'[n].relationship_level
                            >= conversation_states[n].relationship_level
                      /\ conversation_states'[n].max_questions_remaining
                            <= conversation_states[n].max_questions_remaining
          /\ \A n \in (DOMAIN conversation_states') \ (DOMAIN conversation_states) :
                /\ n = call'.npc_id
                /\ call'.ok
                /\ Len(conversation_states'[n].conversation_history) <= 1
                /\ conversation_states'[n].max_questions_remaining
                      = world.npc[n].max_daily_questions
                          - Len(conversation_states'[n].conversation_history)
                /\ conversation_states'[n].relationship_level
                      = Len(conversation_states'[n].essential_topics_created)
                /\ ~Truthy(call'.player_input) =>
                      /\ conversation_states'[n].conversation_history = <<>>
                      /\ conversation_states'[n].relationship_level = 0
          /\ (call'.ok /\ call'.npc_id \in DOMAIN world.npc) =>
                call'.npc_id \in DOMAIN conversation_states']_vars

\* the bard is greeted for the first time when the bartender has already
\* answered a question
C28_Witness ==
    /\ call.op = "talk"
    /\ call.npc_id = "bard"
    /\ call.budget = -1
    /\ "bard" \in DOMAIN conversation_states
    /\ conversation_states["bard"].conversation_history = <<>>
    /\ conversation_states["bard"].max_questions_remaining = 1
    /\ "bartender" \in DOMAIN conversation_states
    /\ conversation_states["bartender"].conversation_history # <<>>

(***************************************************************************)
(* Commits on every category _apply_data_modifications has a branch for    *)
(* (src/engine.py 1209-1335).  A blueprint has no validator, so what the   *)
(* oracle proposes under the schema of modify_blueprint (src/ai_tools.py   *)
(* 515-540) is the admitted map; of the schema's fields a Blueprint        *)
(* (src/game_types.py 105-112) has the name only.                          *)
(***************************************************************************)
\* proposals for the blueprint: its name, its name and a description, and a
\* description alone
BlueprintRequests ==
    {<<"blueprint", "bp1", << <<"name", "new">> >>, ScenarioA>>,
     <<"blueprint", "bp1",
       << <<"name", "new">>, <<"description", "a chipped blade">> >>, ScenarioA>>,
     <<"blueprint", "bp1", << <<"description", "a chipped blade">> >>, ScenarioA>>}

NextCommit ==
    \/ \E r \in CommitRequests \cup BlueprintRequests :
          \E ticks \in [1..Len(r[3]) -> {0, 1}] : Commit(r[1], r[2], r[3], r[4], ticks)
    \/ \E f \in RevertFilters : Revert(f[1], f[2])

SpecCommit == InitTracker /\ [][NextCommit]_vars

\* the entries of the admitted map of a request beside the consequence
AdmittedFields(r) ==
    LET admitted == validate_game_balance(world, player, r[1], r[2], r[3], r[4]).admitted
        Plain(e) == e[1] # "_consequence"
    IN SelectSeq(admitted, Plain)

\* C29: a commit that reports success has set every admitted field other
\* than the consequence on the live entity and has appended one record for
\* each, in their order, with the value the field had before, the admitted
\* value, the utterance and the oracle's reasoning, so at least one record;
\* a commit that reports failure has changed no entity and not the log.
C29_CommitAppliesEveryAdmittedField ==
    [][\A r \in CommitRequests \cup BlueprintRequests :
         \A ticks \in [1..Len(r[3]) -> {0, 1}] :
            Commit(r[1], r[2], r[3], r[4], ticks) =>
               LET fields == AdmittedFields(r)
                   before == world[r[1]][r[2]]
                   after == world'[r[1]][r[2]]
               IN IF call'.ok
                    THEN /\ Len(changes') = Len(changes) + Len(fields)
                         /\ Len(changes') > Len(changes)
                         /\ SubSeq(changes', 1, Len(changes)) = changes
                         /\ \A i \in DOMAIN fields :
                               LET c == changes'[Len(changes) + i]
                               IN /\ fields[i][1] \in DOMAIN after
                                  /\ after[fields[i][1]] = fields[i][2]
                                  /\ c.data_type = r[1]
                                  /\ c.target_id = r[2]
                                  /\ c.field_name = fields[i][1]
                                  /\ c.old_value = Get(before, fields[i][1], None)
                                  /\ c.new_value = fields[i][2]
                                  /\ c.user_input = r[4]
                                  /\ c.reasoning = "because"
                  ELSE world' = world /\ changes' = changes]_vars

\* the amount an effect map gives under a tag, 0 when the tag is not in it
Given(effects, tag) ==
    IF HasKey(effects, tag) THEN Get(Lookup(effects, tag), "amount", 0) ELSE 0

\* the amount a cost map charges for a resource, 0 when it is not in it
Charged(cost, resource) == IF HasKey(cost, resource) THEN Lookup(cost, resource) ELSE 0

\* C30: after an execute whose effect map holds heal or restore_mana the
\* actor's health is at most max_health and the mana at most max_mana,
\* whatever the amount; an execute that returns success has added to the
\* gold exactly the amount of add_gold and to the experience exactly the
\* amount of add_experience, with no upper limit.
C30_RestoresClampedGrantsExact ==
    last.op = "execute" =>
        LET effects == last.action.effects
        IN /\ (HasKey(effects, "heal") \/ HasKey(effects, "restore_mana")) =>
                 /\ player.health <= player.max_health
                 /\ player.mana <= player.max_mana
           /\ last.result = Success =>
                 /\ player.gold = last.player.gold - Charged(last.action.cost, "gold")
                                     + Given(effects, "add_gold")
                 /\ player.experience = last.player.experience
                                           + Given(effects, "add_experience")

\* a heal that would have gone beyond max_health has stopped there
C30_Witness ==
    /\ last.op = "execute"
    /\ last.result = Success
    /\ HasKey(last.action.effects, "heal")
    /\ last.player.health + Given(last.action.effects, "heal") > player.max_health
    /\ player.health = player.max_health

(***************************************************************************)
(* Consequence synthesis on its own: _generate_consequence and             *)
(* _generate_skill_consequence (src/engine.py 1652-1703, 1767-1800) on a   *)
(* justification text.                                                     *)
(***************************************************************************)
\* the words a justification is put together from: every keyword of the
\* two functions, one in upper case, and a word that is no keyword
TextWords ==
    {"break", "damage", "crack", "chip", "dull", "wearing out", "blunt",
     "rust", "corrode", "water", "lose", "drop", "misplace", "bend", "warp",
     "deform", "overusing", "too much", "exhaustion", "forgetting", "losing",
     "rusty", "bad habit", "wrong way", "incorrect", "CHIP", "polish"}

\* the texts: one word, or two with a blank between
Texts == TextWords \cup {a \o " " \o b : a, b \in TextWords}

InitConsequence ==
    \E text \in Texts :
        /\ world = InitWorld
        /\ changes = <<>>
        /\ clock = [now |-> 0, ids |-> 0]
        /\ call = [op |-> "text", user_input |-> text]
        /\ player = InitPlayer
        /\ game_state = InitGameState
        /\ last = NoCall
        /\ conversation_states = NoDict
        /\ saved = Snapshot(InitGameState, NoDict, <<>>)
        /\ client = TRUE
        /\ invalid_inputs = NoFile

\* self._generate_consequence(user_input, item, modifications)
GenerateConsequence ==
    /\ call.op = "text"
    /\ call' = [op |-> "consequence", data_type |-> "item",
                user_input |-> call.user_input,
                consequence |-> _generate_consequence(call.user_input)]
    /\ UNCHANGED <<world, changes, clock, player, game_state, last>>
    /\ UNCHANGED talkVars

\* self._generate_skill_consequence(user_input, skill, modifications)
GenerateSkillConsequence ==
    /\ call.op = "text"
    /\ call' = [op |-> "consequence", data_type |-> "skill",
                user_input |-> call.user_input,
                consequence |-> _generate_skill_consequence(call.user_input)]
    /\ UNCHANGED <<world, changes, clock, player, game_state, last>>
    /\ UNCHANGED talkVars

NextConsequence == GenerateConsequence \/ GenerateSkillConsequence

SpecConsequence == InitConsequence /\ [][NextConsequence]_vars

\* the keyword families of an item in their order of priority, with the
\* type and the severity of the consequence of each
ItemFamilies ==
    <<[words |-> {"break", "damage", "crack", "chip"}, type |-> "damage",
       severity |-> "minor"],
      [words |-> {"dull", "wearing out", "blunt"}, type |-> "deterioration",
       severity |-> "minor"],
      [words |-> {"rust", "corrode", "water"}, type |-> "corrosion", severity |-> "minor"],
      [words |-> {"lose", "drop", "misplace"}, type |-> "loss", severity |-> "major"],
      [words |-> {"bend", "warp", "deform"}, type |-> "deformation",
       severity |-> "moderate"]>>

\* the families with a word in the text, letter case aside
FamiliesIn(text) ==
    {i \in DOMAIN ItemFamilies : \E w \in ItemFamilies[i].words : Contains(Lower(text), w)}

\* C31: the consequence synthesised for an item is that of the family of
\* highest priority among those with a keyword in the justification, in the
\* order damage, deterioration, corrosion, loss, deformation, and the
\* generic wear of minor severity when no family has one.
C31_FirstMatchingFamilyDecides ==
    (call.op = "consequence" /\ call.data_type = "item") =>
        LET found == FamiliesIn(call.user_input)
            first == CHOOSE i \in found : \A j \in found : i <= j
        IN IF found = {}
             THEN /\ call.consequence.type = "wear"
                  /\ call.consequence.severity = "minor"
             ELSE /\ call.consequence.type = ItemFamilies[first].type
                  /\ call.consequence.severity = ItemFamilies[first].severity

\* a text with words of a loss and of a damage, the loss named first, has
\* got the damage
C31_Witness ==
    /\ call.op = "consequence"
    /\ call.data_type = "item"
    /\ call.user_input = "drop chip"
    /\ call.consequence.type = "damage"

\* C32: an execute on an actor whose health, mana and gold are not negative,
\* with cost amounts that are not negative, leaves health, mana and gold not
\* negative, whatever the cost map names and in whatever order.
C32_ResourcesStayNonNegative ==
    (/\ last.op = "execute"
     /\ last.player.health >= 0 /\ last.player.mana >= 0 /\ last.player.gold >= 0
     /\ \A i \in DOMAIN last.action.cost : last.action.cost[i][2] >= 0)
        => (player.health >= 0 /\ player.mana >= 0 /\ player.gold >= 0)

\* the cosmetic fields of a category: name and description, the scene of a
\* location, the personality and the bio of a character
Whitelist(data_type) ==
    {"name", "description"}
      \cup (IF data_type = "location" THEN {"scene"} ELSE {})
      \cup (IF data_type = "npc" THEN {"personality", "bio"} ELSE {})

\* C33: for every category, every key of the admitted map is a cosmetic
\* field of the category or the consequence key.
C33_AdmittedKeysAreCosmetic ==
    Validated =>
        Keys(call.verdict.admitted) \subseteq Whitelist(call.data_type) \cup {"_consequence"}

\* two records on the same field of the same entity
SameField(c, d) ==
    c.data_type = d.data_type /\ c.target_id = d.target_id /\ c.field_name = d.field_name

\* C34: in every state, after a restart on the saved game state too, the
\* field a record of the change log is about holds the new value of the last
\* record appended for it, and of two records on the same field with none
\* for it between them the later one's old value is the earlier one's new
\* value.
C34_LogAgreesWithLiveData ==
    \A i \in DOMAIN changes :
        LET c == changes[i]
            later == {j \in DOMAIN changes : j > i /\ SameField(changes[j], c)}
            next == CHOOSE j \in later : \A k \in later : j <= k
        IN IF later = {}
             THEN (c.data_type \in DOMAIN world /\ c.target_id \in DOMAIN world[c.data_type])
                     => Get(world[c.data_type][c.target_id], c.field_name, None) = c.new_value
             ELSE changes[next].old_value = c.new_value

\* C35: the exchanges in a conversation state's history and its remaining
\* budget add up to the allowance it was created with, so no more exchanges
\* than the allowance are recorded and a state with as many is exhausted.
C35_HistoryPlusBudgetIsAllowance ==
    \A n \in DOMAIN conversation_states :
        LET state == conversation_states[n]
            B == world.npc[n].max_daily_questions
        IN /\ Len(state.conversation_history) + state.max_questions_remaining = B
           /\ Len(state.conversation_history) <= B
           /\ Len(state.conversation_history) = B => Exhausted(state)

\* the bartender's allowance is used up by a scripted topic and a question
\* the oracle answered
C35_Witness ==
    /\ "bartender" \in DOMAIN conversation_states
    /\ world.npc.bartender.max_daily_questions = MaxQuestions
    /\ Len(conversation_states["bartender"].conversation_history) = MaxQuestions
    /\ conversation_states["bartender"].max_questions_remaining = 0
    /\ \E i, j \in DOMAIN conversation_states["bartender"].conversation_history :
          /\ conversation_states["bartender"].conversation_history[i].player_input
                = "What do you pour?"
          /\ conversation_states["bartender"].conversation_history[j].player_input
                = "what about the war"

\* the exchanges of a history that are flagged essential
EssentialExchanges(state) ==
    {i \in DOMAIN state.conversation_history : state.conversation_history[i].is_essential}

\* C36: in every conversation state the relationship level is the length of
\* the list of essential topics and the number of the exchanges of the
\* history that are flagged essential.
C36_RelationshipCountsEssentials ==
    \A n \in DOMAIN conversation_states :
        LET state == conversation_states[n]
        IN /\ state.relationship_level = Len(state.essential_topics_created)
           /\ state.relationship_level = Cardinality(EssentialExchanges(state))

\* the bartender has an essential exchange and one that is not
C36_Witness ==
    /\ "bartender" \in DOMAIN conversation_states
    /\ conversation_states["bartender"].relationship_level = 1
    /\ Len(conversation_states["bartender"].conversation_history) = 2

\* the fields of the entities of w beside field f of entity e of table t
Elsewhere(w, t, e, f) ==
    [x \in DOMAIN w |->
        [y \in DOMAIN w[x] |->
            [z \in (DOMAIN w[x][y]) \ (IF x = t /\ y = e THEN {f} ELSE {}) |-> w[x][y][z]]]]

\* C37: a successful reversion writes the field of its record on the one
\* entity and takes one record off the log; every other field and entity,
\* the consequences kept for items and skills in the temporary effects, the
\* rest of the game state, the actor and the conversation states stay as
\* they were.
C37_RevertTouchesOneField ==
    [][(call'.op = "revert" /\ call'.ok) =>
          LET c == changes[call'.index]
          IN /\ Len(changes') = Len(changes) - 1
             /\ Elsewhere(world', c.data_type, c.target_id, c.field_name)
                   = Elsewhere(world, c.data_type, c.target_id, c.field_name)
             /\ world'[c.data_type][c.target_id][c.field_name] = c.old_value
             /\ game_state' = game_state
             /\ player' = player
             /\ conversation_states' = conversation_states]_vars

\* the commit on the skill that left a consequence has been reverted: the
\* description is the old one, no record is left, the consequence is there
C37_Witness ==
    /\ call.op = "revert"
    /\ call.ok
    /\ call.data_type = "skill"
    /\ world.skill.heal.description = "plain"
    /\ \A i \in DOMAIN changes : changes[i].target_id # "heal"
    /\ "skill_consequences" \in DOMAIN game_state.temporary_effects
    /\ "heal" \in DOMAIN game_state.temporary_effects["skill_consequences"]

(***************************************************************************)
(* AIActionHandler.check_player_permission (src/ai_actions.py 27-95) and   *)
(* invalid_inputs.txt, the file it keeps beside the sources: a text of     *)
(* lines, read anew by every call.                                         *)
(***************************************************************************)
\* the lines of a text, the line ends taken off
RECURSIVE Lines(_)
Lines(text) ==
    IF Len(text) = 0 THEN <<>>
    ELSE LET ends == {i \in 1..Len(text) : SubSeq(text, i, i) = "\n"}
             end == CHOOSE i \in ends : \A j \in ends : i <= j
         IN IF ends = {} THEN <<text>>
            ELSE <<SubSeq(text, 1, end - 1)>> \o Lines(SubSeq(text, end + 1, Len(text)))

\* set(line.strip().lower() for line in f if line.strip()) (41-45); the set
\* is empty when the file cannot be opened
read_invalid_inputs(file) ==
    IF file.kind = "missing" THEN {}
    ELSE {Lower(Strip(Lines(file.text)[i])) :
            i \in {j \in DOMAIN Lines(file.text) : Strip(Lines(file.text)[j]) # ""}}

\* an append that writes the entry without the end of the line
append_NoNewline(file, cleaned) ==
    TextFile((IF file.kind = "missing" THEN "" ELSE file.text) \o cleaned)

\* open(invalid_path, "a") and f.write(f"{cleaned}\n") (84-88)
append_invalid(file, cleaned) ==
    TextFile((IF file.kind = "missing" THEN "" ELSE file.text) \o cleaned \o "\n")

\* the test of the reasoning for a denial that names no rule (83)
NonSpecific(reasoning) ==
    \/ Contains(reasoning, "not a valid")
    \/ Contains(reasoning, "not comprehensible")
    \/ Contains(reasoning, "unclear")
    \/ Contains(reasoning, "meaningful")

Memoised ==
    "Input is not a valid or comprehensible action. Please enter a meaningful command."

\* [allowed, reasoning, asked, file]: asked is whether the request to the
\* oracle was made, file is invalid_inputs.txt after the call
check_player_permission(file, cl, user_input, oracle) ==
    LET cleaned == Lower(Strip(user_input))
        allowed == Get(oracle, "allowed", TRUE)
        reasoning == Get(oracle, "reasoning", "No reasoning provided")
    IN IF cleaned \in read_invalid_inputs(file)
         THEN [allowed |-> FALSE, reasoning |-> Memoised, asked |-> FALSE, file |-> file]
       ELSE IF ~cl
         THEN [allowed |-> TRUE, reasoning |-> "No API key available, defaulting to allowed",
               asked |-> FALSE, file |-> file]
       ELSE IF Failing(oracle)
         THEN [allowed |-> TRUE, reasoning |-> "Error occurred during permission check",
               asked |-> TRUE, file |-> file]
       ELSE [allowed |-> allowed, reasoning |-> reasoning, asked |-> TRUE,
             file |-> IF ~allowed /\ NonSpecific(reasoning)
                        THEN append_invalid(file, cleaned) ELSE file]

\* what the player types: a word in two spellings, a phrase as typed and
\* with blanks and capitals around it, and a request for gold
PermissionInputs == {"xyzzy", "XYZZY", "fly away", " Fly Away ", "give me gold"}

\* the arguments of the permission tool call as the oracle may send them:
\* none (the request fails), a permission, denials whose reasoning has one
\* of the four phrases, denials that name a rule, have no reasoning or
\* spell the phrase with a capital, and a permission with such a phrase
PermissionAnswers ==
    {Failed,
     [allowed |-> TRUE, reasoning |-> "A harmless thing to do."],
     [allowed |-> FALSE, reasoning |-> "This is not a valid action."],
     [allowed |-> FALSE, reasoning |-> "The request is unclear."],
     [allowed |-> FALSE, reasoning |-> "Players cannot grant themselves gold."],
     [allowed |-> FALSE],
     [allowed |-> FALSE, reasoning |-> "Unclear."],
     [reasoning |-> "Say something meaningful."]}

InitPermission ==
    /\ world = InitWorld
    /\ changes = <<>>
    /\ clock = [now |-> 0, ids |-> 0]
    /\ call = NoValidatorCall
    /\ player = InitPlayer
    /\ game_state = InitGameState
    /\ last = NoCall
    /\ conversation_states = NoDict
    /\ saved = Snapshot(InitGameState, NoDict, <<>>)
    /\ client \in BOOLEAN
    /\ invalid_inputs = NoFile

\* ai_handler.check_player_permission(user_input, game_state_dict); without
\* a request to the oracle there is no answer
CheckPermission(user_input, oracle) ==
    LET out == check_player_permission(invalid_inputs, client, user_input, oracle)
    IN /\ ~out.asked => oracle = Failed
       /\ invalid_inputs' = out.file
       /\ call' = [op |-> "permission", user_input |-> user_input,
                   allowed |-> out.allowed, reasoning |-> out.reasoning,
                   asked |-> out.asked]
       /\ UNCHANGED <<world, changes, clock, player, game_state, last,
                      conversation_states, saved, client>>

\* AIActionHandler() in a process started with or without OPENAI_API_KEY
NewHandler(key) ==
    /\ client' = key
    /\ call' = [op |-> "handler"]
    /\ UNCHANGED <<world, changes, clock, player, game_state, last,
                   conversation_states, saved, invalid_inputs>>

NextPermission ==
    \/ \E user_input \in PermissionInputs, oracle \in PermissionAnswers :
          CheckPermission(user_input, oracle)
    \/ \E key \in BOOLEAN : NewHandler(key)

SpecPermission == InitPermission /\ [][NextPermission]_vars

\* C38: an input whose trimmed, lower-cased text is memoised is denied
\* without a request to the oracle, with and without a client; a call puts
\* that text on the memo exactly when the oracle denies the input with a
\* reasoning that holds "not a valid", "not comprehensible", "unclear" or
\* "meaningful"; and no step takes an entry off the memo.
C38_DenialMemoIsSticky ==
    [][LET memo == read_invalid_inputs(invalid_inputs)
           memo2 == read_invalid_inputs(invalid_inputs')
           cleaned == Lower(Strip(call'.user_input))
       IN IF call'.op = "permission"
            THEN /\ memo \subseteq memo2
                 /\ cleaned \in memo =>
                       (~call'.allowed /\ ~call'.asked /\ memo2 = memo)
                 /\ cleaned \notin memo =>
                       memo2 = IF /\ call'.asked
                                  /\ ~call'.allowed
                                  /\ NonSpecific(call'.reasoning)
                                 THEN memo \cup {cleaned} ELSE memo
            ELSE memo2 = memo]_vars

\* with two entries in the file and no client, the phrase typed with blanks
\* and capitals is denied from the memo
C38_Witness ==
    /\ call.op = "permission"
    /\ ~client
    /\ call.user_input = " Fly Away "
    /\ ~call.allowed
    /\ ~call.asked
    /\ read_invalid_inputs(invalid_inputs) = {"xyzzy", "fly away"}

(***************************************************************************)
(* GameEngine.execute_immediate_action (src/engine.py 1091-1133) and       *)
(* _apply_immediate_effects (1135-1157) on the player.  An amount is a     *)
(* number or, as <<"string", text>>, a value that cannot be added to one.  *)
(***************************************************************************)
\* _apply_immediate_effects: [player, raised].  Each change is made when
\* its line is reached; a TypeError or the AttributeError of
\* stats.experience_to_next_level, which Stats (src/game_types.py 132-145)
\* does not have, leaves the changes made before it in place.
_apply_immediate_effects(p, effects) ==
    LET IsNumber(k) == effects[k][1] = "number"
        p1 == IF "health_change" \in DOMAIN effects
                THEN [p EXCEPT !.health = Max(0, Min(100, @ + effects["health_change"][2]))]
                ELSE p
        p2 == IF "mana_change" \in DOMAIN effects
                THEN [p1 EXCEPT !.mana = Max(0, Min(50, @ + effects["mana_change"][2]))]
                ELSE p1
        p3 == IF "gold_change" \in DOMAIN effects
                THEN [p2 EXCEPT !.gold = Max(0, @ + effects["gold_change"][2])]
                ELSE p2
        p4 == [p3 EXCEPT !.experience = @ + effects["experience_change"][2]]
    IN IF "health_change" \in DOMAIN effects /\ ~IsNumber("health_change")
         THEN [player |-> p, raised |-> TRUE]
       ELSE IF "mana_change" \in DOMAIN effects /\ ~IsNumber("mana_change")
         THEN [player |-> p1, raised |-> TRUE]
       ELSE IF "gold_change" \in DOMAIN effects /\ ~IsNumber("gold_change")
         THEN [player |-> p2, raised |-> TRUE]
       ELSE IF "experience_change" \notin DOMAIN effects
         THEN [player |-> p3, raised |-> FALSE]
       ELSE IF ~IsNumber("experience_change")
         THEN [player |-> p3, raised |-> TRUE]
       ELSE [player |-> p4, raised |-> TRUE]

\* execute_immediate_action from the request to the oracle on: [ok, player].
\* Without a client self.ai_handler.client is None and the request raises.
execute_immediate_action(p, cl, action_result) ==
    LET effects == Get(action_result, "effects", NoDict)
        applied == _apply_immediate_effects(p, effects)
    IN IF ~cl \/ Failing(action_result) \/ "message" \notin DOMAIN action_result
         THEN [ok |-> FALSE, player |-> p]
       ELSE IF effects = NoDict
         THEN [ok |-> TRUE, player |-> p]
       ELSE [ok |-> ~applied.raised, player |-> applied.player]

\* the amounts of a change
Changes == {<<"number", n>> : n \in {-1, 1}}

\* the arguments of the tool call as the oracle may send them: none (the
\* request fails), no message, a message alone or with empty effects, each
\* change alone, a loss of health with a gain of experience, and a loss of
\* health with a mana change that is no number
ImmediateResults ==
    {Failed,
     [effects |-> [health_change |-> <<"number", 1>>]],
     [message |-> "You whistle a tune."],
     [message |-> "You whistle a tune.", effects |-> NoDict]}
      \cup {[message |-> "It is done.", effects |-> (k :> c)] :
              k \in {"health_change", "mana_change", "gold_change", "experience_change"},
              c \in Changes}
      \cup {[message |-> "You train until you drop.",
             effects |-> [health_change |-> <<"number", -1>>,
                          experience_change |-> <<"number", 1>>]],
            [message |-> "You meditate.",
             effects |-> [health_change |-> <<"number", -1>>,
                          mana_change |-> <<"string", "a little">>]]}

InitImmediate ==
    /\ world = InitWorld
    /\ changes = <<>>
    /\ clock = [now |-> 0, ids |-> 0]
    /\ call = NoValidatorCall
    /\ player \in {[InitPlayer EXCEPT !.health = h, !.mana = m, !.gold = g] :
                      h \in 0..MaxStat, m \in 0..MaxStat, g \in 0..MaxStat}
    /\ game_state = InitGameState
    /\ last = NoCall
    /\ conversation_states = NoDict
    /\ saved = Snapshot(InitGameState, NoDict, <<>>)
    /\ client \in BOOLEAN
    /\ invalid_inputs = NoFile

\* game.execute_immediate_action(user_input, game_state_dict); without a
\* client there is no answer
ExecuteImmediate(action_result) ==
    LET out == execute_immediate_action(player, client, action_result)
    IN /\ call.op = "none"
       /\ ~client => action_result = Failed
       /\ player' = out.player
       /\ call' = [op |-> "immediate", ok |-> out.ok, action_result |-> action_result,
                   player |-> player]
       /\ UNCHANGED <<world, changes, clock, game_state, last>>
       /\ UNCHANGED talkVars

NextImmediate == \E action_result \in ImmediateResults : ExecuteImmediate(action_result)

SpecImmediate == InitImmediate /\ [][NextImmediate]_vars

\* C39: when execute_immediate_action returns False, the player's health,
\* mana, gold, experience and level are what they were before the call.
C39_FailedImmediateLeavesPlayer ==
    (call.op = "immediate" /\ ~call.ok) =>
        /\ player.health = call.player.health
        /\ player.mana = call.player.mana
        /\ player.gold = call.player.gold
        /\ player.experience = call.player.experience
        /\ player.level = call.player.level

====
